---- MODULE Spec2Model ----
(***************************************************************************)
(* Translation Bridge: the zone-classifying transform engine               *)
(* (src/src/translation_bridge/transforms/core.py).                        *)
(*                                                                         *)
(* Python data is modelled with reference semantics: every dict and list   *)
(* is a cell of `heap`, addressed by its index; a value is a string or a   *)
(* reference to a cell.  Trees are compared by value after dereferencing.  *)
(***************************************************************************)
EXTENDS Integers, Sequences, FiniteSets, TLC

VARIABLES heap, data, before, zone_types, transformer, result, calls, pc,
          engine, log, registry

vars == <<heap, data, before, zone_types, transformer, result, calls, pc,
          engine, log, registry>>

\* what a call of transform and its caller leave alone: the engine
\* instance's fields, the record of the other engine calls, the registries
others == <<engine, log, registry>>

(***************************************************************************)
(* Bounds of the explored documents.                                       *)
(***************************************************************************)
MaxWidgets == 3
MaxDepth == 2

(***************************************************************************)
(* Python values.  All values share one record shape so that any two can   *)
(* be compared: ty is "str", "list", "dict" or (inside the heap) "ref".    *)
(***************************************************************************)
Str(x) == [ty |-> "str", s |-> x, a |-> 0, ks |-> <<>>, vs |-> <<>>]
List(items) == [ty |-> "list", s |-> "", a |-> 0, ks |-> <<>>, vs |-> items]
Dict(keys, vals) == [ty |-> "dict", s |-> "", a |-> 0, ks |-> keys, vs |-> vals]
Ref(addr) == [ty |-> "ref", s |-> "", a |-> addr, ks |-> <<>>, vs |-> <<>>]

\* Sequencing: Python evaluates x before it goes on with the statements that
\* use it.  Then(x, F) is F(x) with x evaluated once, before F is applied.
Then(x, F(_)) == CHOOSE r \in {F(v) : v \in {x}} : TRUE

\* isinstance(v, dict) / isinstance(v, list) on a heap value
IsDict(h, v) == v.ty = "ref" /\ h[v.a].ty = "dict"
IsList(h, v) == v.ty = "ref" /\ h[v.a].ty = "list"

\* position of key in a key sequence, 0 when absent
IndexOf(keys, key) ==
    IF \E i \in 1..Len(keys) : keys[i] = key
    THEN CHOOSE i \in 1..Len(keys) : keys[i] = key
    ELSE 0

\* `key in d` for a dict cell
HasKey(cell, key) == IndexOf(cell.ks, key) # 0

\* d[key] for a dict cell that holds key
Get(cell, key) == cell.vs[IndexOf(cell.ks, key)]

\* d[key] = value on a dict cell: an existing key keeps its position,
\* a new key is appended (insertion order)
SetKey(cell, key, value) ==
    IF HasKey(cell, key)
    THEN [cell EXCEPT !.vs[IndexOf(cell.ks, key)] = value]
    ELSE [cell EXCEPT !.ks = Append(cell.ks, key), !.vs = Append(cell.vs, value)]

(***************************************************************************)
(* Building a tree in the heap (the caller constructing / loading its      *)
(* data) and reading it back as a tree value.                              *)
(***************************************************************************)
RECURSIVE Alloc(_, _)
RECURSIVE AllocSeq(_, _, _, _)

\* allocates items[i..] in order; acc collects the heap values
AllocSeq(h, items, i, acc) ==
    IF i > Len(items) THEN [h |-> h, vs |-> acc]
    ELSE Then(Alloc(h, items[i]),
              LAMBDA r : AllocSeq(r.h, items, i + 1, Append(acc, r.v)))

\* [h |-> heap with the tree stored, v |-> the heap value for it]
Alloc(h, tree) ==
    IF tree.ty = "str" THEN [h |-> h, v |-> tree]
    ELSE Then(AllocSeq(h, tree.vs, 1, <<>>),
              LAMBDA r : [h |-> Append(r.h, [tree EXCEPT !.vs = r.vs]),
                          v |-> Ref(Len(r.h) + 1)])

RECURSIVE Deref(_, _)
\* the tree value a heap value stands for
Deref(h, v) ==
    IF v.ty # "ref" THEN v
    ELSE LET cell == h[v.a]
         IN  [cell EXCEPT !.vs = [i \in 1..Len(cell.vs) |-> Deref(h, cell.vs[i])]]

RECURSIVE PyEq(_, _)
\* Python == on tree values: dicts compare regardless of key order
PyEq(x, y) ==
    /\ x.ty = y.ty
    /\ CASE x.ty = "str" -> x.s = y.s
         [] x.ty = "list" ->
              /\ Len(x.vs) = Len(y.vs)
              /\ \A i \in 1..Len(x.vs) : PyEq(x.vs[i], y.vs[i])
         [] OTHER ->
              /\ Len(x.ks) = Len(y.ks)
              /\ \A i \in 1..Len(x.ks) :
                    /\ HasKey(y, x.ks[i])
                    /\ PyEq(x.vs[i], Get(y, x.ks[i]))

\* no copy at all: result_data = data
deepcopyAlias(h, v) == [h |-> h, v |-> v]

\* copy.deepcopy: a fresh cell for every dict and list reachable from v
deepcopy(h, v) == Alloc(h, Deref(h, v))

(***************************************************************************)
(* String helpers: str.lower(), str.upper() and the `in` substring test.   *)
(***************************************************************************)
UpperChars == "ABCDEFGHIJKLMNOPQRSTUVWXYZ"
LowerChars == "abcdefghijklmnopqrstuvwxyz"

CharAt(s, i) == SubSeq(s, i, i)

LowerChar(c) ==
    IF \E i \in 1..Len(UpperChars) : CharAt(UpperChars, i) = c
    THEN CharAt(LowerChars, CHOOSE i \in 1..Len(UpperChars) : CharAt(UpperChars, i) = c)
    ELSE c

UpperChar(c) ==
    IF \E i \in 1..Len(LowerChars) : CharAt(LowerChars, i) = c
    THEN CharAt(UpperChars, CHOOSE i \in 1..Len(LowerChars) : CharAt(LowerChars, i) = c)
    ELSE c

RECURSIVE Lower(_)
Lower(s) == IF Len(s) = 0 THEN "" ELSE LowerChar(CharAt(s, 1)) \o Lower(SubSeq(s, 2, Len(s)))

RECURSIVE Upper(_)
Upper(s) == IF Len(s) = 0 THEN "" ELSE UpperChar(CharAt(s, 1)) \o Upper(SubSeq(s, 2, Len(s)))

\* sub in s
Contains(sub, s) ==
    \E i \in 1..(Len(s) - Len(sub) + 1) : SubSeq(s, i, i + Len(sub) - 1) = sub

\* any(kw in s for kw in keywords)
AnyIn(keywords, s) == \E i \in 1..Len(keywords) : Contains(keywords[i], s)

(***************************************************************************)
(* TransformEngine.classify_zones                                          *)
(***************************************************************************)
STRUCTURAL_KEYS ==
    {"elType", "widgetType", "elements", "isInner",
     "id", "_id", "columns", "rows", "section", "column"}

\* the keyword lists of the three `any(... in key_lower ...)` tests
ContentKeywords ==
    <<"text", "title", "content", "description", "heading", "editor", "caption", "label">>
StylingKeywords ==
    <<"color", "background", "margin", "padding", "border", "font", "size", "typography">>
BehavioralKeywords == <<"animation", "motion", "hover", "scroll", "trigger">>

\* ZoneType, in the order in which classify_zones emits the zones of one map
ZoneType == <<"structural", "content", "styling", "behavioral", "meta">>

\* the branches of the if/elif chain: each holds when the chain reaches it
\* and its own test succeeds
IsStructuralKey(key) == key \in STRUCTURAL_KEYS \/ key = "elements"

\* the content test on key instead of key_lower
IsContentKeyCased(key) ==
    /\ ~IsStructuralKey(key)
    /\ AnyIn(ContentKeywords, key)

IsContentKey(key) ==
    /\ ~IsStructuralKey(key)
    /\ AnyIn(ContentKeywords, Lower(key))

\* the styling test as an `if` of its own instead of an `elif`
IsStylingKeyIf(key) == AnyIn(StylingKeywords, Lower(key))

IsStylingKey(key) ==
    /\ ~IsStructuralKey(key)
    /\ ~AnyIn(ContentKeywords, Lower(key))
    /\ AnyIn(StylingKeywords, Lower(key))

IsBehavioralKey(key) ==
    /\ ~IsStructuralKey(key)
    /\ ~AnyIn(ContentKeywords, Lower(key))
    /\ ~AnyIn(StylingKeywords, Lower(key))
    /\ AnyIn(BehavioralKeywords, Lower(key))

IsMetaKey(key) ==
    /\ ~IsStructuralKey(key)
    /\ ~AnyIn(ContentKeywords, Lower(key))
    /\ ~AnyIn(StylingKeywords, Lower(key))
    /\ ~AnyIn(BehavioralKeywords, Lower(key))

\* whether the loop stores key in the bucket of zone type zt
InBucket(zt, key) ==
    CASE zt = "structural" -> IsStructuralKey(key)
      [] zt = "content" -> IsContentKey(key)
      [] zt = "styling" -> IsStylingKey(key)
      [] zt = "behavioral" -> IsBehavioralKey(key)
      [] OTHER -> IsMetaKey(key)

\* the keys of the maps handed to classify_zones on their own: keys of every
\* rule, in other letter case, and keys that hold keywords of two rules
KeyPool ==
    {"id", "elements", "settings", "ID", "title", "Heading", "title_color",
     "background_color", "animation", "hover_color", "scroll_text", "custom"}

\* the keys of the explored documents and transformer results
KnownKeys ==
    {"id", "elType", "widgetType", "settings", "elements",
     "title", "title_color", "color", "animation", "custom"} \cup KeyPool

\* InBucket on the known keys, evaluated once per key
KnownBuckets ==
    [key \in KnownKeys |-> {zt \in {ZoneType[i] : i \in 1..Len(ZoneType)} : InBucket(zt, key)}]

\* structural_data, content_data, ...: the entries of the map that the loop
\* stored in the bucket of zt, in the map's insertion order
BucketData(cell, zt) ==
    LET idx == SelectSeq([i \in 1..Len(cell.ks) |-> i],
                         LAMBDA i : IF cell.ks[i] \in KnownKeys
                                    THEN zt \in KnownBuckets[cell.ks[i]]
                                    ELSE InBucket(zt, cell.ks[i]))
    IN  Dict([j \in 1..Len(idx) |-> cell.ks[idx[j]]],
             [j \in 1..Len(idx) |-> cell.vs[idx[j]]])

\* Zone(zone_type, path or "root", data, list(data.keys()))
Zone(zt, path, zdata) ==
    [zone_type |-> zt,
     path |-> IF path = "" THEN "root" ELSE path,
     data |-> zdata,
     original_keys |-> zdata.ks]

RECURSIVE OwnZonesFromAll(_, _, _)
\* zones.append(...) for every bucket, without the `if <bucket>:` tests
OwnZonesFromAll(cell, path, i) ==
    IF i > Len(ZoneType) THEN <<>>
    ELSE <<Zone(ZoneType[i], path, BucketData(cell, ZoneType[i]))>>
         \o OwnZonesFromAll(cell, path, i + 1)

RECURSIVE OwnZonesFrom(_, _, _)
\* the `if <bucket>: zones.append(...)` statements from the i-th zone type on
OwnZonesFrom(cell, path, i) ==
    IF i > Len(ZoneType) THEN <<>>
    ELSE LET zdata == BucketData(cell, ZoneType[i])
         IN  (IF Len(zdata.ks) > 0 THEN <<Zone(ZoneType[i], path, zdata)>> ELSE <<>>)
             \o OwnZonesFrom(cell, path, i + 1)

\* the zones of one map (an element dict or a settings dict)
OwnZones(cell, path) == OwnZonesFrom(cell, path, 1)

\* f"{path}.elements[{i}]" if path else f"elements[{i}]"
ChildPath(path, i) ==
    IF path = "" THEN "elements[" \o ToString(i) \o "]"
    ELSE path \o ".elements[" \o ToString(i) \o "]"

\* f"{path}.settings" if path else "settings"
SettingsPath(path) == IF path = "" THEN "settings" ELSE path \o ".settings"

RECURSIVE classify_zones(_, _, _)
RECURSIVE ClassifyChildren(_, _, _, _)

\* the loop over enumerate(element["elements"]) from the i-th child on
ClassifyChildren(h, items, i, path) ==
    IF i > Len(items) THEN <<>>
    ELSE classify_zones(h, items[i], ChildPath(path, i - 1))
         \o ClassifyChildren(h, items, i + 1, path)

classify_zones(h, element, path) ==
    IF ~IsDict(h, element) THEN <<>>
    ELSE LET cell == h[element.a]
         IN  OwnZones(cell, path)
             \o (IF HasKey(cell, "elements") /\ IsList(h, Get(cell, "elements"))
                 THEN ClassifyChildren(h, h[Get(cell, "elements").a].vs, 1, path)
                 ELSE <<>>)
             \o (IF HasKey(cell, "settings") /\ IsDict(h, Get(cell, "settings"))
                 THEN classify_zones(h, Get(cell, "settings"), SettingsPath(path))
                 ELSE <<>>)

(***************************************************************************)
(* The caller's transformer: a callable Zone -> Zone.  A transformer is a  *)
(* record [kind, failPath, skipPath]; it raises on the Content zone at     *)
(* failPath, returns the Content zone at skipPath as it got it ("" : no    *)
(* such zone), and otherwise answers by its kind:                          *)
(*   "same"    returns the zone it was given                               *)
(*   "upper"   returns a new zone, every string value upper-cased (the     *)
(*             uppercase_content transformer of the tests)                 *)
(*   "drop"    like "upper", but the returned data lacks the last key      *)
(*   "extra"   like "upper", plus a key "id" the zone may not own          *)
(*   "reorder" returns a new zone, same entries in reversed order          *)
(*   "poke"    upper-cases in place the strings of every dict held as a    *)
(*             value of zone.data, and returns the zone it was given       *)
(*   "None"    no transformer (calling None raises TypeError)              *)
(***************************************************************************)
NoTransformer == [kind |-> "None", failPath |-> "", skipPath |-> ""]

Transformer(kind, failPath) == [kind |-> kind, failPath |-> failPath, skipPath |-> ""]

UpperValue(v) == IF v.ty = "str" THEN Str(Upper(v.s)) ELSE v

UpperData(zdata) == [zdata EXCEPT !.vs = [i \in 1..Len(zdata.vs) |-> UpperValue(zdata.vs[i])]]

DropLast(zdata) ==
    Dict(SubSeq(zdata.ks, 1, Len(zdata.ks) - 1), SubSeq(zdata.vs, 1, Len(zdata.vs) - 1))

Reversed(zdata) ==
    Dict([i \in 1..Len(zdata.ks) |-> zdata.ks[Len(zdata.ks) + 1 - i]],
         [i \in 1..Len(zdata.vs) |-> zdata.vs[Len(zdata.vs) + 1 - i]])

RECURSIVE PokeFrom(_, _, _)
\* upper-cases, in place, the strings of the dicts referenced by zdata.vs[i..]
PokeFrom(h, zdata, i) ==
    IF i > Len(zdata.vs) THEN h
    ELSE Then(IF IsDict(h, zdata.vs[i])
              THEN [h EXCEPT ![zdata.vs[i].a] = UpperData(@)]
              ELSE h,
              LAMBDA h1 : PokeFrom(h1, zdata, i + 1))

\* whether transformer t raises on zone
Raises(t, zone) ==
    \/ t.kind = "None"
    \/ (t.failPath # "" /\ zone.path = t.failPath /\ zone.zone_type = "content")

\* transformer(zone): [raised, msg, data |-> the data of the returned zone,
\* h |-> the heap after the call]
CallTransformer(t, zone, h) ==
    IF Raises(t, zone)
    THEN [raised |-> TRUE,
          msg |-> IF t.kind = "None" THEN "'NoneType' object is not callable" ELSE "boom",
          data |-> zone.data, h |-> h]
    ELSE IF t.skipPath # "" /\ zone.path = t.skipPath /\ zone.zone_type = "content"
    THEN [raised |-> FALSE, msg |-> "", data |-> zone.data, h |-> h]
    ELSE [raised |-> FALSE, msg |-> "",
          data |-> CASE t.kind = "upper" -> UpperData(zone.data)
                     [] t.kind = "drop" -> DropLast(UpperData(zone.data))
                     [] t.kind = "extra" -> SetKey(UpperData(zone.data), "id", Str("evil"))
                     [] t.kind = "reorder" -> Reversed(zone.data)
                     [] OTHER -> zone.data,
          h |-> IF t.kind = "poke" THEN PokeFrom(h, zone.data, 1) ELSE h]

(***************************************************************************)
(* TransformEngine.transform                                               *)
(***************************************************************************)
\* zone_types: None, or a list of zone types
NoZoneTypes == [none |-> TRUE, types |-> {}]
ZoneTypes(types) == [none |-> FALSE, types |-> types]

\* the zone filter left out
ZoneMatchesAll(zts, zone) == TRUE

\* zone_types is None or zone.zone_type in zone_types
ZoneMatches(zts, zone) == zts.none \/ zone.zone_type \in zts.types

\* a dict that sits outside the heap (zone data), read as a tree value
DerefData(h, zdata) == [zdata EXCEPT !.vs = [i \in 1..Len(zdata.vs) |-> Deref(h, zdata.vs[i])]]

\* f"Error transforming zone at {zone.path}: {str(e)}"
ErrorMessage(path, msg) == "Error transforming zone at " \o path \o ": " \o msg

ItemAssignError == "object does not support item assignment"

\* the body of `for key, value in transformed_zone.data.items():` for one
\* item; [h, raised, msg]
WriteItem(h, element, key, value) ==
    LET cell == h[element.a]
        sv == Get(cell, "settings")
    IN  IF HasKey(cell, key)
        THEN [h |-> [h EXCEPT ![element.a] = SetKey(cell, key, value)],
              raised |-> FALSE, msg |-> ""]
        ELSE IF ~HasKey(cell, "settings")
        THEN [h |-> h, raised |-> FALSE, msg |-> ""]
        ELSE IF IsDict(h, sv)
        THEN [h |-> IF HasKey(h[sv.a], key)
                    THEN [h EXCEPT ![sv.a] = SetKey(h[sv.a], key, value)]
                    ELSE h,
              raised |-> FALSE, msg |-> ""]
        \* `key in element["settings"]` on a list or a string; the item
        \* assignment that follows raises TypeError
        ELSE IF \/ (IsList(h, sv) /\ \E j \in 1..Len(h[sv.a].vs) : h[sv.a].vs[j] = Str(key))
                \/ (sv.ty = "str" /\ Contains(key, sv.s))
        THEN [h |-> h, raised |-> TRUE, msg |-> ItemAssignError]
        ELSE [h |-> h, raised |-> FALSE, msg |-> ""]

RECURSIVE WriteBack(_, _, _, _)
\* for key, value in transformed_zone.data.items(): ... from the i-th item
\* on; [h, raised, msg]
WriteBack(h, element, zdata, i) ==
    IF i > Len(zdata.ks) THEN [h |-> h, raised |-> FALSE, msg |-> ""]
    ELSE Then(WriteItem(h, element, zdata.ks[i], zdata.vs[i]),
              LAMBDA w : IF w.raised THEN w ELSE WriteBack(w.h, element, zdata, i + 1))

\* what follows `transformed_zone = transformer(zone)`: r is the outcome of
\* the call, called the running state after it
AfterCall(called, element, zone, r) ==
    IF r.raised
    THEN [called EXCEPT !.errors = Append(@, ErrorMessage(zone.path, r.msg))]
    ELSE IF PyEq(DerefData(r.h, r.data), DerefData(r.h, zone.data))
    THEN called
    ELSE Then(WriteBack(r.h, element, r.data, 1),
              LAMBDA w :
                [called EXCEPT
                   !.h = w.h,
                   !.zones_modified = Append(@, zone.path),
                   !.errors = IF w.raised
                              THEN Append(@, ErrorMessage(zone.path, w.msg))
                              ELSE @])

\* one iteration of `for zone in zones:` on the running state
\* st = [h, zones_modified, errors, calls]
ProcessZone(st, element, zone, zts, t) ==
    IF ~ZoneMatches(zts, zone) THEN st
    ELSE Then(CallTransformer(t, zone, st.h),
              LAMBDA r :
                AfterCall([st EXCEPT !.h = r.h,
                                     !.calls = Append(@, [zone_type |-> zone.zone_type,
                                                          path |-> zone.path])],
                          element, zone, r))

RECURSIVE ProcessZonesAbort(_, _, _, _, _, _)
\* the zone loop with the try/except around the whole loop: the first
\* failure ends it
ProcessZonesAbort(st, element, zones, i, zts, t) ==
    IF i > Len(zones) THEN st
    ELSE Then(ProcessZone(st, element, zones[i], zts, t),
              LAMBDA st1 : IF Len(st1.errors) > Len(st.errors) THEN st1
                           ELSE ProcessZonesAbort(st1, element, zones, i + 1, zts, t))

RECURSIVE ProcessZones(_, _, _, _, _, _)
\* `for zone in zones:` from the i-th zone on
ProcessZones(st, element, zones, i, zts, t) ==
    IF i > Len(zones) THEN st
    ELSE Then(ProcessZone(st, element, zones[i], zts, t),
              LAMBDA st1 : ProcessZones(st1, element, zones, i + 1, zts, t))

RECURSIVE process_element(_, _, _, _, _)
RECURSIVE ProcessChildren(_, _, _, _, _, _)

\* the list comprehension over enumerate(element["elements"]), from the
\* i-th child on
ProcessChildren(st, items, i, path, zts, t) ==
    IF i > Len(items) THEN st
    ELSE Then(process_element(st, items[i], ChildPath(path, i - 1), zts, t),
              LAMBDA st1 : ProcessChildren(st1, items, i + 1, path, zts, t))

\* `if "elements" in element and isinstance(element["elements"], list):`
\* element["elements"] = [process_element(child, ...) for ...]; the
\* comprehension builds a new list of the (same) children
RecurseIntoChildren(st1, element, path, zts, t) ==
    LET cell == st1.h[element.a]
        items == st1.h[Get(cell, "elements").a].vs
    IN  IF HasKey(cell, "elements") /\ IsList(st1.h, Get(cell, "elements"))
        THEN Then(ProcessChildren(st1, items, 1, path, zts, t),
                  LAMBDA st2 :
                    [st2 EXCEPT !.h = [Append(st2.h, List(items)) EXCEPT ![element.a] =
                                          SetKey(@, "elements", Ref(Len(st2.h) + 1))]])
        ELSE st1

\* process_element mutates element in place and returns it, so the state
\* after the call is its whole effect
process_element(st, element, path, zts, t) ==
    IF ~IsDict(st.h, element) THEN st
    ELSE Then(ProcessZones(st, element, classify_zones(st.h, element, path), 1, zts, t),
              LAMBDA st1 : RecurseIntoChildren(st1, element, path, zts, t))

\* f"[{i}]"
ItemPath(i) == "[" \o ToString(i) \o "]"

RECURSIVE ProcessTopLevel(_, _, _, _, _)
\* [process_element(item, f"[{i}]") for i, item in enumerate(result_data)]
ProcessTopLevel(st, items, i, zts, t) ==
    IF i > Len(items) THEN st
    ELSE Then(process_element(st, items[i], ItemPath(i - 1), zts, t),
              LAMBDA st1 : ProcessTopLevel(st1, items, i + 1, zts, t))

\* TransformResult(success, data, zones_modified, metadata_preserved, errors)
TransformResult(success, rdata, zones_modified, errors) ==
    [success |-> success, data |-> rdata, zones_modified |-> zones_modified,
     metadata_preserved |-> 100, errors |-> errors]

\* the answer with success=True whatever the errors
AnswerSuccess(st, rdata) ==
    [h |-> st.h,
     calls |-> st.calls,
     result |-> TransformResult(TRUE, rdata, st.zones_modified, st.errors)]

\* the answer of transform: the heap after the call, the TransformResult and
\* the zones handed to the transformer
Answer(st, rdata) ==
    [h |-> st.h,
     calls |-> st.calls,
     result |-> TransformResult(Len(st.errors) = 0, rdata, st.zones_modified, st.errors)]

\* `if isinstance(result_data, list): ... elif isinstance(result_data, dict):`
\* on result_data = c.v in the heap c.h
ProcessData(c, zts, t) ==
    LET st0 == [h |-> c.h, zones_modified |-> <<>>, errors |-> <<>>, calls |-> <<>>]
    IN  IF IsList(c.h, c.v)
        THEN Then(ProcessTopLevel(st0, c.h[c.v.a].vs, 1, zts, t),
                  LAMBDA st : Answer([st EXCEPT !.h = Append(@, List(c.h[c.v.a].vs))],
                                     Ref(Len(st.h) + 1)))
        ELSE IF IsDict(c.h, c.v)
        THEN Then(process_element(st0, c.v, "", zts, t), LAMBDA st : Answer(st, c.v))
        ELSE Answer(st0, c.v)

\* the part of transform after the `transformer is None` return
TransformWith(h, d, zts, t) ==
    Then(deepcopy(h, d), LAMBDA c : ProcessData(c, zts, t))

\* transform without the `if transformer is None:` return
transformAlways(h, d, zts, t) == TransformWith(h, d, zts, t)

\* transform(data, zone_types, transformer): [h |-> the heap after the call,
\* result |-> the TransformResult, calls |-> the zones handed to transformer]
transform(h, d, zts, t) ==
    IF t.kind = "None"
    THEN [h |-> h, calls |-> <<>>, result |-> TransformResult(TRUE, d, <<>>, <<>>)]
    ELSE TransformWith(h, d, zts, t)

(***************************************************************************)
(* The documents handed to the engine: MaxWidgets or fewer sibling         *)
(* widgets, as a bare top-level list (depth 0) or nested under 1..MaxDepth *)
(* containers.                                                             *)
(***************************************************************************)
EmptySettings == Dict(<<>>, <<>>)
TitledSettings == Dict(<<"title">>, <<Str("A")>>)
ContainerSettings == {EmptySettings, TitledSettings}

PlainSettings == Dict(<<"title">>, <<Str("a")>>)
RichSettings ==
    Dict(<<"title", "title_color", "color", "animation", "custom">>,
         <<Str("b"), Str("a"), Str("b"), Str("a"), Str("b")>>)
WidgetSettings == {PlainSettings, RichSettings}

Widget(i, settings) ==
    Dict(<<"id", "widgetType", "settings">>,
         <<Str("w" \o ToString(i)), Str("heading"), settings>>)

Container(level, settings, children) ==
    Dict(<<"id", "elType", "settings", "elements">>,
         <<Str("c" \o ToString(level)), Str("section"), settings, List(children)>>)

RECURSIVE Wrap(_, _, _)
\* widgets under d containers; only the outermost container has settings cs
Wrap(d, cs, widgets) ==
    IF d = 0 THEN List(widgets)
    ELSE IF d = 1 THEN Container(d, cs, widgets)
    ELSE Container(d, cs, <<Wrap(d - 1, EmptySettings, widgets)>>)

WidgetLists ==
    UNION {{[i \in 1..n |-> Widget(i, f[i])] : f \in [1..n -> WidgetSettings]} :
           n \in 1..MaxWidgets}

Docs == {Wrap(d, cs, ws) : d \in 0..MaxDepth, cs \in ContainerSettings, ws \in WidgetLists}

ZoneTypeChoices ==
    {NoZoneTypes, ZoneTypes({}), ZoneTypes({"content"}), ZoneTypes({"content", "meta"}),
     ZoneTypes({"structural", "styling", "behavioral"})}

TransformerKinds == {"same", "upper", "drop", "extra", "reorder", "poke"}

RECURSIVE ClassifyItems(_, _, _)
\* the zones process_element classifies for the items of a top-level list
ClassifyItems(h, items, i) ==
    IF i > Len(items) THEN <<>>
    ELSE classify_zones(h, items[i], ItemPath(i - 1)) \o ClassifyItems(h, items, i + 1)

\* the zones of the document held at d, under the paths transform gives them
DocZones(h, d) ==
    IF IsList(h, d) THEN ClassifyItems(h, h[d.a].vs, 1) ELSE classify_zones(h, d, "")

\* the paths of the Content zones of the document held at d
ContentPaths(h, d) ==
    LET zones == DocZones(h, d)
    IN  {zones[i].path : i \in {j \in 1..Len(zones) : zones[j].zone_type = "content"}}

(***************************************************************************)
(* The state machine: a caller holds a document (data), calls transform    *)
(* once, and may afterwards change the tree it got back.                   *)
(***************************************************************************)
NoResult == TransformResult(FALSE, Str(""), <<>>, <<>>)

\* TransformEngine(): self._transforms = {}, self._zone_cache = {}
NewEngine == [_transforms |-> <<>>, _zone_cache |-> <<>>]

\* the registries as the class statements leave them: no instance, no entry
NoRegistry ==
    [transforms |-> [instance |-> FALSE, entries |-> <<>>],
     parsers |-> [instance |-> FALSE, entries |-> <<>>]]

\* nothing but transform is called on the engine
Idle ==
    /\ engine = NewEngine
    /\ log = <<>>
    /\ registry = NoRegistry

Init ==
    /\ Idle
    /\ \E doc \in Docs :
          /\ heap = Alloc(<<>>, doc).h
          /\ data = Alloc(<<>>, doc).v
          /\ before = doc
    /\ zone_types = NoZoneTypes
    /\ transformer = NoTransformer
    /\ result = NoResult
    /\ calls = <<>>
    /\ pc = "ready"

\* result = engine.transform(data, zone_types, transformer)
Call(zts, t) ==
    /\ pc = "ready"
    /\ \E r \in {transform(heap, data, zts, t)} :
          /\ heap' = r.h
          /\ result' = r.result
          /\ calls' = r.calls
    /\ zone_types' = zts
    /\ transformer' = t
    /\ pc' = "returned"
    /\ UNCHANGED <<data, before>>
    /\ UNCHANGED others

\* the transformers tried on the document held at d: every kind that never
\* raises, and "upper" raising on one Content zone of the document
Transformers(h, d) ==
    {Transformer(kind, "") : kind \in TransformerKinds}
    \cup {Transformer("upper", fp) : fp \in ContentPaths(h, d)}

Transform ==
    /\ pc = "ready"
    /\ \E zts \in ZoneTypeChoices, t \in Transformers(heap, data) : Call(zts, t)

\* engine.transform(data) and engine.transform(data, zone_types): no transformer
TransformNoTransformer ==
    \E zts \in ZoneTypeChoices : Call(zts, NoTransformer)

RECURSIVE Reachable(_, _)
\* the addresses of the dicts and lists reachable from a heap value
Reachable(h, v) ==
    IF v.ty # "ref" THEN {}
    ELSE {v.a} \cup UNION {Reachable(h, h[v.a].vs[i]) : i \in 1..Len(h[v.a].vs)}

\* the caller changes the tree it got back: sets a key of one of its dicts
\* or appends to one of its lists
MutateResult ==
    /\ pc = "returned"
    /\ \E addr \in Reachable(heap, result.data) :
          heap' = [heap EXCEPT ![addr] =
                      IF @.ty = "dict" THEN SetKey(@, "id", Str("changed"))
                      ELSE [@ EXCEPT !.vs = Append(@, Str("changed"))]]
    /\ pc' = "mutated"
    /\ UNCHANGED <<data, before, zone_types, transformer, result, calls>>
    /\ UNCHANGED others

Next == Transform \/ TransformNoTransformer \/ MutateResult

Spec == Init /\ [][Next]_vars

(***************************************************************************)
(* Views of a document used to state the properties.                       *)
(***************************************************************************)
\* a value without what it refers to: a nested dict or list is classified
\* and compared as a map of its own
Shallow(v) == IF v.ty = "ref" THEN Ref(0) ELSE v

ShallowSeq(vs) == [i \in 1..Len(vs) |-> Shallow(vs[i])]

RECURSIVE MapsOf(_, _, _)
\* the maps classify_zones classifies from element on, each with the path
\* its zones carry: [path, a |-> the address of the map]
MapsOf(h, element, path) ==
    IF ~IsDict(h, element) THEN {}
    ELSE LET cell == h[element.a]
         IN  {[path |-> IF path = "" THEN "root" ELSE path, a |-> element.a]}
             \cup (IF HasKey(cell, "elements") /\ IsList(h, Get(cell, "elements"))
                   THEN UNION {MapsOf(h, h[Get(cell, "elements").a].vs[i], ChildPath(path, i - 1)) :
                               i \in 1..Len(h[Get(cell, "elements").a].vs)}
                   ELSE {})
             \cup (IF HasKey(cell, "settings") /\ IsDict(h, Get(cell, "settings"))
                   THEN MapsOf(h, Get(cell, "settings"), SettingsPath(path))
                   ELSE {})

DocMaps(h, d) ==
    IF IsList(h, d)
    THEN UNION {MapsOf(h, h[d.a].vs[i], ItemPath(i - 1)) : i \in 1..Len(h[d.a].vs)}
    ELSE MapsOf(h, d, "")

\* every classified map of the document: its path, keys and own values
MapView(h, d) ==
    {[path |-> m.path, ks |-> h[m.a].ks, vs |-> ShallowSeq(h[m.a].vs)] : m \in DocMaps(h, d)}

\* the zones of the document that are not Content zones, with their own values
NonContentZones(h, d) ==
    LET zones == DocZones(h, d)
    IN  {[zone_type |-> zones[i].zone_type, path |-> zones[i].path,
          ks |-> zones[i].original_keys, vs |-> ShallowSeq(zones[i].data.vs)] :
         i \in {j \in 1..Len(zones) : zones[j].zone_type # "content"}}

SeqToSet(q) == {q[i] : i \in 1..Len(q)}

Returned == pc = "returned"
WithTransformer == transformer.kind # "None"

\* the heap and data the call started from
Start == Alloc(<<>>, before)

(***************************************************************************)
(* C1.  Selective preservation: after transform with zone_types=[CONTENT]  *)
(* and any transformer, the input tree and the result tree classify to     *)
(* the same Structural, Styling, Behavioral and Meta zones, with the same  *)
(* data, for every node; only Content zone data may differ.                *)
(***************************************************************************)
C1_SelectivePreservation ==
    (Returned /\ WithTransformer /\ zone_types = ZoneTypes({"content"}))
        => NonContentZones(heap, result.data) = NonContentZones(heap, data)

(***************************************************************************)
(* C2.  Per-zone failure isolation: when the transformer raises for a      *)
(* zone, transform returns, records one errors entry per failed call, and  *)
(* calls the transformer on, and applies the changes of, every other       *)
(* matching zone exactly as if the failing zone had been returned          *)
(* unchanged.                                                              *)
(***************************************************************************)
C2_FailureIsolation ==
    (Returned /\ transformer.failPath # "") =>
        \A ref \in {transform(Start.h, Start.v, zone_types,
                              [transformer EXCEPT !.failPath = "",
                                                  !.skipPath = transformer.failPath])} :
            /\ Deref(heap, result.data) = Deref(ref.h, ref.result.data)
            /\ result.zones_modified = ref.result.zones_modified
            /\ calls = ref.calls
            /\ ref.result.errors = <<>>
            /\ Len(result.errors) =
                   Cardinality({i \in 1..Len(calls) :
                                   /\ calls[i].path = transformer.failPath
                                   /\ calls[i].zone_type = "content"})
            /\ \A i \in 1..Len(result.errors) :
                   result.errors[i] = ErrorMessage(transformer.failPath, "boom")
            /\ result.success = (Len(result.errors) = 0)

\* a call failed, and a zone handed over after it had its changes applied
C2_Witness ==
    /\ Returned
    /\ transformer.failPath # ""
    /\ result.errors # <<>>
    /\ \E i, j \in 1..Len(calls) :
          /\ i < j
          /\ calls[i].path = transformer.failPath /\ calls[i].zone_type = "content"
          /\ calls[j].path # transformer.failPath
          /\ calls[j].path \in SeqToSet(result.zones_modified)

(***************************************************************************)
(* C3.  Partition: for every map that classify_zones classifies (an        *)
(* element dict or a settings dict), the original_keys of the zones        *)
(* emitted for that map are pairwise disjoint and their union is exactly   *)
(* the key set of the map.  Checked on every input tree before the call    *)
(* and on every tree transform returns.                                    *)
(***************************************************************************)
PartitionOf(h, d) ==
    \A zones \in {DocZones(h, d)} :
      \A m \in DocMaps(h, d) :
        LET idx == {i \in 1..Len(zones) : zones[i].path = m.path}
        IN  /\ \A i, j \in idx :
                  i # j => SeqToSet(zones[i].original_keys)
                             \cap SeqToSet(zones[j].original_keys) = {}
            /\ UNION {SeqToSet(zones[i].original_keys) : i \in idx} = SeqToSet(h[m.a].ks)

C3_Partition ==
    /\ pc = "ready" => PartitionOf(heap, data)
    /\ Returned => PartitionOf(heap, result.data)

\* a settings map with a key matching two keyword lists is classified into
\* four zones
C3_Witness ==
    \E zones \in {DocZones(heap, data)} :
      \E i, j \in 1..Len(zones) :
        /\ zones[i].path = zones[j].path
        /\ zones[i].zone_type = "content" /\ zones[j].zone_type = "styling"
        /\ "title_color" \in SeqToSet(zones[i].original_keys)
        /\ Cardinality({k \in 1..Len(zones) : zones[k].path = zones[i].path}) = 4

(***************************************************************************)
(* C4.  transform never alters the caller-supplied data: whatever the      *)
(* zone_types and the transformer (one that raises, one that mutates the   *)
(* zone data it is handed), the input tree after the call equals the       *)
(* input tree before the call.                                             *)
(***************************************************************************)
C4_InputUntouched == Returned => Deref(heap, data) = before

\* the transformer changed, in place, data it reached through a zone, and
\* the returned tree shows the change
C4_Witness ==
    /\ Returned
    /\ transformer.kind = "poke"
    /\ Deref(heap, result.data) # before

(***************************************************************************)
(* C5.  Path validity: the values a transformer returns for the zone at    *)
(* path P are written into the map at P and into no other map; so every    *)
(* map whose own values differ between the input and the result is the     *)
(* map addressed by a path in zones_modified.  Stated for the transformer  *)
(* that upper-cases every string it is given.                              *)
(***************************************************************************)
C5_PathValidity ==
    (Returned /\ transformer = Transformer("upper", "")) =>
        /\ SeqToSet(result.zones_modified) \subseteq {m.path : m \in DocMaps(heap, data)}
        /\ \A m \in MapView(heap, data) :
             \A r \in MapView(heap, result.data) :
               (r.path = m.path /\ r # m) => m.path \in SeqToSet(result.zones_modified)

(***************************************************************************)
(* C6.  Idempotence: transform(data) with no zone_types and no transformer *)
(* returns success = true, metadata_preserved = 100, empty zones_modified  *)
(* and errors, and data equal to the input.                                *)
(***************************************************************************)
C6_NoTransformerIdentity ==
    (Returned /\ transformer.kind = "None" /\ zone_types.none) =>
        /\ result.success
        /\ result.metadata_preserved = 100
        /\ result.zones_modified = <<>>
        /\ result.errors = <<>>
        /\ PyEq(Deref(heap, result.data), before)

\* transform was called without zone_types and transformer on a document
\* that has zones
C6_Witness ==
    /\ Returned
    /\ transformer.kind = "None"
    /\ zone_types.none
    /\ DocZones(heap, data) # <<>>

(***************************************************************************)
(* C7.  Error isolation scenario: three sibling widgets, a transformer     *)
(* that raises only on the Content zone of the second one: success is      *)
(* false, errors holds exactly one entry, which names that zone's path,    *)
(* and the first and third widgets carry their transformed values.         *)
(***************************************************************************)
\* the widgets of the document: the classified maps that have a widgetType
Widgets(h, d) == {m \in DocMaps(h, d) : HasKey(h[m.a], "widgetType")}

WidgetWithId(h, d, id) ==
    CHOOSE m \in Widgets(h, d) : Get(h[m.a], "id") = Str(id)

\* the title in the settings map at path of the document held at d
TitleAt(h, d, path) ==
    LET m == CHOOSE x \in DocMaps(h, d) : x.path = path
    IN  Get(h[m.a], "title")

C7_ErrorIsolationScenario ==
    (/\ Returned
     /\ Cardinality(Widgets(heap, data)) = 3
     /\ transformer.kind = "upper"
     /\ transformer.failPath = WidgetWithId(heap, data, "w2").path \o ".settings"
     /\ zone_types = ZoneTypes({"content"}))
    => /\ result.success = FALSE
       /\ Len(result.errors) = 1
       /\ result.errors[1] = ErrorMessage(transformer.failPath, "boom")
       /\ \A id \in {"w1", "w3"} :
            LET sp == WidgetWithId(heap, data, id).path \o ".settings"
            IN  TitleAt(heap, result.data, sp) = UpperValue(TitleAt(heap, data, sp))

(***************************************************************************)
(* C8.  The tree transform returns is a fresh copy, also when no           *)
(* transformer is given: changing the returned tree afterwards never       *)
(* changes the caller's tree.                                              *)
(***************************************************************************)
C8_FreshCopy == pc = "mutated" => Deref(heap, data) = before

(***************************************************************************)
(* C9.  Zone filter: with zone_types given, the transformer is called      *)
(* only with zones whose type is in zone_types, and with every such zone   *)
(* of the document; with zone_types omitted it is called with every zone   *)
(* of the document, of all five types.                                     *)
(***************************************************************************)
C9_ZoneFilter ==
    (Returned /\ WithTransformer) =>
        /\ \A i \in 1..Len(calls) :
              zone_types.none \/ calls[i].zone_type \in zone_types.types
        /\ \A zones \in {DocZones(heap, data)} :
             \A i \in 1..Len(zones) :
               (zone_types.none \/ zones[i].zone_type \in zone_types.types)
                 => [zone_type |-> zones[i].zone_type, path |-> zones[i].path]
                      \in SeqToSet(calls)

\* zone_types omitted: zones of all five types were passed
C9_Witness ==
    /\ Returned
    /\ WithTransformer
    /\ zone_types.none
    /\ {calls[i].zone_type : i \in 1..Len(calls)} = SeqToSet(ZoneType)

(***************************************************************************)
(* C10.  transform never implicitly deletes: when the transformer returns  *)
(* data lacking a key of the zone it was given, that key is still present  *)
(* in the result tree, in the map the zone's path addresses, with its      *)
(* original value.  Stated for the transformer whose answer lacks the      *)
(* last key of every zone.                                                 *)
(***************************************************************************)
C10_NoImplicitDelete ==
    (Returned /\ transformer.kind = "drop") =>
        \A zones \in {DocZones(heap, data)} :
          \A i \in 1..Len(zones) :
            [zone_type |-> zones[i].zone_type, path |-> zones[i].path] \in SeqToSet(calls)
              => \E r \in MapView(heap, result.data) :
                   /\ r.path = zones[i].path
                   /\ \E k \in 1..Len(r.ks) :
                        /\ r.ks[k] = zones[i].original_keys[Len(zones[i].original_keys)]
                        /\ r.vs[k] = Shallow(zones[i].data.vs[Len(zones[i].data.vs)])

(***************************************************************************)
(* classify_zones called on its own: a caller holds one map (or a value    *)
(* that is no map) of up to MaxKeys keys and has it classified under a     *)
(* path.                                                                   *)
(***************************************************************************)
MaxKeys == 3

\* the injective key sequences of up to MaxKeys keys: dict keys in
\* insertion order
KeySeqs ==
    UNION {{ks \in [1..n -> KeyPool] : \A i, j \in 1..n : ks[i] = ks[j] => i = j} :
           n \in 0..MaxKeys}

\* the value a map holds under key
ValueFor(key) ==
    CASE key = "settings" -> Dict(<<"title_color", "custom">>, <<Str("v"), Str("v")>>)
      [] key = "elements" -> List(<<Widget(1, PlainSettings)>>)
      [] OTHER -> Str("v")

MapOf(ks) == Dict(ks, [i \in 1..Len(ks) |-> ValueFor(ks[i])])

ClassifyInputs == {MapOf(ks) : ks \in KeySeqs} \cup {Str("v"), List(<<MapOf(<<"title">>)>>)}

ClassifyPaths == {"", "settings", "elements[0].settings"}

ClassifyInit ==
    /\ \E doc \in ClassifyInputs :
          /\ heap = Alloc(<<>>, doc).h
          /\ data = Alloc(<<>>, doc).v
          /\ before = doc
    /\ zone_types = NoZoneTypes
    /\ transformer = NoTransformer
    /\ result = NoResult
    /\ calls = <<>>
    /\ pc = "ready"
    /\ Idle

\* zones = engine.classify_zones(data, path)
ClassifyZones ==
    /\ pc = "ready"
    /\ \E path \in ClassifyPaths :
          log' = <<[op |-> "classify_zones", path |-> path,
                    zones |-> classify_zones(heap, data, path)]>>
    /\ pc' = "classified"
    /\ UNCHANGED <<heap, data, before, zone_types, transformer, result, calls,
                   engine, registry>>

ClassifyNext == ClassifyZones

ClassifySpec == ClassifyInit /\ [][ClassifyNext]_vars

\* a map was classified
Classified == pc = "classified" /\ before.ty = "dict"

\* the zones classify_zones returned that carry the path of the map itself
OwnOf(entry) ==
    SelectSeq(entry.zones,
              LAMBDA z : z.path = (IF entry.path = "" THEN "root" ELSE entry.path))

(***************************************************************************)
(* C11.  classify_zones assigns each key by the first matching rule of     *)
(* the chain Structural (key in the structural key set or 'elements'),     *)
(* Content keyword, Styling keyword, Behavioral keyword, else Meta; a key  *)
(* that matches several rules goes to the earliest one; keywords are       *)
(* matched case-insensitively as substrings of the literal key.            *)
(***************************************************************************)
\* the rules, each on its own
Rule(n, key) ==
    CASE n = 1 -> key \in STRUCTURAL_KEYS \/ key = "elements"
      [] n = 2 -> AnyIn(ContentKeywords, Lower(key))
      [] n = 3 -> AnyIn(StylingKeywords, Lower(key))
      [] n = 4 -> AnyIn(BehavioralKeywords, Lower(key))
      [] OTHER -> TRUE

\* the zone type of the first rule that matches each key of the pool
FirstRule ==
    [key \in KeyPool |-> ZoneType[CHOOSE n \in 1..5 :
                                     Rule(n, key) /\ \A m \in 1..(n - 1) : ~Rule(m, key)]]

C11_FirstMatchWins ==
    Classified =>
        \A k \in 1..Len(before.ks) :
          \A z \in SeqToSet(OwnOf(log[1])) :
            (before.ks[k] \in SeqToSet(z.original_keys)) = (z.zone_type = FirstRule[before.ks[k]])

\* a key holding keywords of two rules went to the earlier one, and a key
\* in another letter case was matched
C11_Witness ==
    /\ Classified
    /\ \E z \in SeqToSet(OwnOf(log[1])) :
          z.zone_type = "styling" /\ "hover_color" \in SeqToSet(z.original_keys)
    /\ \E z \in SeqToSet(OwnOf(log[1])) :
          z.zone_type = "content" /\ "Heading" \in SeqToSet(z.original_keys)
    /\ Rule(4, "hover_color")

(***************************************************************************)
(* C12.  classify_zones places the compound key title_color in the         *)
(* Styling zone, not in the Content zone.                                  *)
(***************************************************************************)
C12_TitleColorIsStyling ==
    (Classified /\ "title_color" \in SeqToSet(before.ks)) =>
        /\ \E z \in SeqToSet(OwnOf(log[1])) :
              z.zone_type = "styling" /\ "title_color" \in SeqToSet(z.original_keys)
        /\ \A z \in SeqToSet(OwnOf(log[1])) :
              z.zone_type = "content" => "title_color" \notin SeqToSet(z.original_keys)

(***************************************************************************)
(* C13.  classify_zones emits, for one map, exactly one zone for each zone *)
(* type that received at least one key and none for a type that received   *)
(* none, and each zone's data keys equal its original_keys; the map        *)
(* {title, background_color, animation} yields exactly Content{title},     *)
(* Styling{background_color}, Behavioral{animation} and no Meta zone.      *)
(***************************************************************************)
ExampleKeys == <<"title", "background_color", "animation">>

C13_OneZonePerBucket ==
    Classified =>
        \A own \in {OwnOf(log[1])} :
          /\ \A i \in 1..Len(ZoneType) :
                Cardinality({j \in 1..Len(own) : own[j].zone_type = ZoneType[i]})
                  = (IF \E k \in 1..Len(before.ks) : FirstRule[before.ks[k]] = ZoneType[i]
                     THEN 1 ELSE 0)
          /\ \A j \in 1..Len(own) :
                /\ own[j].data.ks = own[j].original_keys
                /\ own[j].original_keys # <<>>
          /\ before.ks = ExampleKeys =>
                /\ Len(log[1].zones) = 3
                /\ [j \in 1..3 |-> <<own[j].zone_type, own[j].original_keys>>]
                     = << <<"content", <<"title">> >>,
                          <<"styling", <<"background_color">> >>,
                          <<"behavioral", <<"animation">> >> >>

\* the example map was classified into three zones, none of them Meta
C13_Witness ==
    /\ Classified
    /\ before.ks = ExampleKeys
    /\ Len(log[1].zones) = 3
    /\ \A z \in SeqToSet(log[1].zones) : z.zone_type # "meta"

(***************************************************************************)
(* C14.  For every call of transform, success is true exactly when errors  *)
(* is empty, and metadata_preserved is 100 whether or not a transformer    *)
(* call failed.                                                            *)
(***************************************************************************)
C14_SuccessIffNoErrors ==
    pc \in {"returned", "mutated"} =>
        /\ result.success = (result.errors = <<>>)
        /\ result.metadata_preserved = 100

\* a transformer call failed: success is false, metadata_preserved still 100
C14_Witness ==
    /\ Returned
    /\ transformer.failPath # ""
    /\ result.errors # <<>>
    /\ ~result.success
    /\ result.metadata_preserved = 100

(***************************************************************************)
(* TransformEngine.extract_content                                         *)
(***************************************************************************)
\* the keyword list of the `any(ck in key.lower() ...)` test of extract_content
ExtractKeywords == <<"text", "title", "content", "description", "heading", "editor">>

\* the known keys that pass the keyword test, evaluated once per key
ExtractKnown == {key \in KnownKeys : AnyIn(ExtractKeywords, Lower(key))}

IsExtractKey(key) ==
    IF key \in KnownKeys THEN key \in ExtractKnown
    ELSE AnyIn(ExtractKeywords, Lower(key))

\* the characters str.strip() removes, of those the documents hold
Whitespace == {" ", "\t", "\n", "\r"}

\* value.strip() == ""
IsBlank(str) == \A i \in 1..Len(str) : CharAt(str, i) \in Whitespace

\* `value and isinstance(value, str) and value.strip()` passes
NonBlankString(v) == v.ty = "str" /\ v.s # "" /\ ~IsBlank(v.s)

\* element.get("elType", element.get("widgetType", "unknown"))
ElementType(cell) ==
    IF HasKey(cell, "elType") THEN Get(cell, "elType")
    ELSE IF HasKey(cell, "widgetType") THEN Get(cell, "widgetType")
    ELSE Str("unknown")

\* f"{path}.settings.{key}" if path else f"settings.{key}"
ItemFieldPath(path, key) ==
    IF path = "" THEN "settings." \o key ELSE path \o ".settings." \o key

\* the items appended without the test on the value
SettingsItemsAll(settings, path, element_type) ==
    LET idx == SelectSeq([i \in 1..Len(settings.ks) |-> i],
                         LAMBDA i : IsExtractKey(settings.ks[i]))
    IN  [j \in 1..Len(idx) |->
            [path |-> ItemFieldPath(path, settings.ks[idx[j]]),
             key |-> settings.ks[idx[j]],
             value |-> settings.vs[idx[j]],
             element_type |-> element_type]]

\* the items the loop over settings.items() appends
SettingsItems(settings, path, element_type) ==
    LET idx == SelectSeq([i \in 1..Len(settings.ks) |-> i],
                         LAMBDA i : /\ IsExtractKey(settings.ks[i])
                                    /\ NonBlankString(settings.vs[i]))
    IN  [j \in 1..Len(idx) |->
            [path |-> ItemFieldPath(path, settings.ks[idx[j]]),
             key |-> settings.ks[idx[j]],
             value |-> settings.vs[idx[j]],
             element_type |-> element_type]]

\* f"{path}[{i}]" if path else f"[{i}]"
ListItemPath(path, i) == path \o "[" \o ToString(i) \o "]"

RECURSIVE extract_recursive(_, _, _)
RECURSIVE ExtractChildren(_, _, _, _)
RECURSIVE ExtractListItems(_, _, _, _)

RECURSIVE ExtractChildrenReversed(_, _, _, _)
\* the loop over the children run from the last child to the first
ExtractChildrenReversed(h, items, i, path) ==
    IF i > Len(items) THEN <<>>
    ELSE ExtractChildrenReversed(h, items, i + 1, path)
         \o extract_recursive(h, items[i], ChildPath(path, i - 1))

\* for i, child in enumerate(elements): extract_recursive(child, child_path)
ExtractChildren(h, items, i, path) ==
    IF i > Len(items) THEN <<>>
    ELSE extract_recursive(h, items[i], ChildPath(path, i - 1))
         \o ExtractChildren(h, items, i + 1, path)

ExtractListItems(h, items, i, path) ==
    IF i > Len(items) THEN <<>>
    ELSE extract_recursive(h, items[i], ListItemPath(path, i - 1))
         \o ExtractListItems(h, items, i + 1, path)

extract_recursive(h, element, path) ==
    IF IsDict(h, element)
    THEN LET cell == h[element.a]
         IN  (IF ~HasKey(cell, "settings") THEN <<>>
              ELSE IF IsDict(h, Get(cell, "settings"))
              THEN SettingsItems(h[Get(cell, "settings").a], path, ElementType(cell))
              ELSE <<>>)
             \o (IF HasKey(cell, "elements") /\ IsList(h, Get(cell, "elements"))
                 THEN ExtractChildren(h, h[Get(cell, "elements").a].vs, 1, path)
                 ELSE <<>>)
    ELSE IF IsList(h, element)
    THEN ExtractListItems(h, h[element.a].vs, 1, path)
    ELSE <<>>

extract_content(h, d) ==
    IF IsList(h, d) THEN ExtractListItems(h, h[d.a].vs, 1, "")
    ELSE extract_recursive(h, d, "")

(***************************************************************************)
(* TransformEngine.analyze                                                 *)
(***************************************************************************)
\* content_items[:5]
PreviewLen == 5

NoCount == [n |-> 0, zones |-> <<>>]

RECURSIVE count_elements(_, _)
RECURSIVE CountItems(_, _, _)

\* count_elements on items[i..]: [n |-> elements counted, zones |-> the zones
\* all_zones was extended with]
CountItems(h, items, i) ==
    IF i > Len(items) THEN NoCount
    ELSE Then(count_elements(h, items[i]),
              LAMBDA a : Then(CountItems(h, items, i + 1),
                              LAMBDA b : [n |-> a.n + b.n, zones |-> a.zones \o b.zones]))

count_elements(h, element) ==
    IF IsDict(h, element)
    THEN LET cell == h[element.a]
         IN  Then(IF HasKey(cell, "elements") /\ IsList(h, Get(cell, "elements"))
                  THEN CountItems(h, h[Get(cell, "elements").a].vs, 1)
                  ELSE NoCount,
                  LAMBDA rest : [n |-> 1 + rest.n,
                                 zones |-> classify_zones(h, element, "") \o rest.zones])
    ELSE IF IsList(h, element)
    THEN CountItems(h, h[element.a].vs, 1)
    ELSE NoCount

\* the dict analyze returns
Analysis(counted, content_items) ==
    [total_elements |-> counted.n,
     total_zones |-> Len(counted.zones),
     zones_by_type |->
        [zt \in SeqToSet(ZoneType) |->
            Cardinality({i \in 1..Len(counted.zones) : counted.zones[i].zone_type = zt})],
     content_items |-> Len(content_items),
     content_preview |->
        SubSeq(content_items, 1,
               IF Len(content_items) < PreviewLen THEN Len(content_items) ELSE PreviewLen),
     metadata_preservation |-> "100%"]

analyze(h, d) ==
    Then(IF IsList(h, d) THEN CountItems(h, h[d.a].vs, 1) ELSE count_elements(h, d),
         LAMBDA counted : Analysis(counted, extract_content(h, d)))

(***************************************************************************)
(* One TransformEngine instance used for several calls: a caller holds a   *)
(* document and calls classify_zones, extract_content, analyze and (once)  *)
(* transform on the instance, on its document or on the tree transform     *)
(* returned, up to MaxCalls calls.  Every call is recorded in log with the *)
(* value of its argument and the value of what it returned.                *)
(***************************************************************************)
MaxCalls == 3

\* the values found under the keys of a settings map
SettingValues ==
    {Str("Welcome"), Str(""), Str(" \t"), Dict(<<"url">>, <<Str("u")>>)}

EngineSettings ==
    {Dict(<<"title">>, <<v>>) : v \in SettingValues}
    \cup {Dict(<<"custom", "Heading">>, <<Str("Welcome"), v>>) : v \in {Str("Hi"), Str("\n")}}

\* one widget, or two of which the second has a title or an empty one
EngineWidgetLists ==
    {<<Widget(1, s1)>> : s1 \in EngineSettings}
    \cup {<<Widget(1, s1), Widget(2, Dict(<<"title">>, <<v>>))>> :
             s1 \in EngineSettings, v \in {Str("Welcome"), Str("")}}

\* as a bare list, under one container, under two containers
EngineDocs == {Wrap(d, TitledSettings, ws) : d \in {0, 1, 2}, ws \in EngineWidgetLists}

\* a method call on the engine e: [engine |-> e after the call, out |-> what
\* the call returns].  The cached variant keeps the zones of the first call
\* per path in self._zone_cache and answers later calls from it.
EngineClassifyCached(e, h, d, path) ==
    IF \E i \in 1..Len(e._zone_cache) : e._zone_cache[i].key = path
    THEN [engine |-> e,
          out |-> e._zone_cache[CHOOSE i \in 1..Len(e._zone_cache) :
                                   e._zone_cache[i].key = path].zones]
    ELSE Then(classify_zones(h, d, path),
              LAMBDA zones :
                 [engine |-> [e EXCEPT !._zone_cache =
                                          Append(@, [key |-> path, zones |-> zones])],
                  out |-> zones])

EngineClassify(e, h, d, path) == [engine |-> e, out |-> classify_zones(h, d, path)]

EngineExtract(e, h, d) == [engine |-> e, out |-> extract_content(h, d)]

EngineAnalyze(e, h, d) == [engine |-> e, out |-> analyze(h, d)]

\* the values of what the calls return, with every reference replaced by
\* the tree it refers to
ZonesValue(h, zones) ==
    [i \in 1..Len(zones) |-> [zones[i] EXCEPT !.data = DerefData(h, @)]]

ItemsValue(h, items) ==
    [i \in 1..Len(items) |-> [items[i] EXCEPT !.element_type = Deref(h, @)]]

AnalysisValue(h, a) == [a EXCEPT !.content_preview = ItemsValue(h, @)]

ResultValue(h, r) == [r EXCEPT !.data = Deref(h, @)]

\* the entry of log for one call; zts and t are those of a transform call
Entry(op, h, d, zts, t, out) ==
    [op |-> op, doc |-> Deref(h, d), zone_types |-> zts, transformer |-> t, out |-> out]

\* the trees the caller holds
Targets == {data} \cup (IF pc = "returned" THEN {result.data} ELSE {})

EngineInit ==
    /\ \E doc \in EngineDocs :
          /\ heap = Alloc(<<>>, doc).h
          /\ data = Alloc(<<>>, doc).v
          /\ before = doc
    /\ zone_types = NoZoneTypes
    /\ transformer = NoTransformer
    /\ result = NoResult
    /\ calls = <<>>
    /\ pc = "ready"
    /\ Idle

\* zones = engine.classify_zones(d)
CallClassify ==
    /\ Len(log) < MaxCalls
    /\ \E d \in Targets :
         \E r \in {EngineClassify(engine, heap, d, "")} :
            /\ engine' = r.engine
            /\ log' = Append(log, Entry("classify_zones", heap, d, NoZoneTypes, NoTransformer,
                                        ZonesValue(heap, r.out)))
    /\ UNCHANGED <<heap, data, before, zone_types, transformer, result, calls, pc, registry>>

\* items = engine.extract_content(d)
CallExtract ==
    /\ Len(log) < MaxCalls
    /\ \E d \in Targets :
         \E r \in {EngineExtract(engine, heap, d)} :
            /\ engine' = r.engine
            /\ log' = Append(log, Entry("extract_content", heap, d, NoZoneTypes, NoTransformer,
                                        ItemsValue(heap, r.out)))
    /\ UNCHANGED <<heap, data, before, zone_types, transformer, result, calls, pc, registry>>

\* stats = engine.analyze(d)
CallAnalyze ==
    /\ Len(log) < MaxCalls
    /\ \E d \in Targets :
         \E r \in {EngineAnalyze(engine, heap, d)} :
            /\ engine' = r.engine
            /\ log' = Append(log, Entry("analyze", heap, d, NoZoneTypes, NoTransformer,
                                        AnalysisValue(heap, r.out)))
    /\ UNCHANGED <<heap, data, before, zone_types, transformer, result, calls, pc, registry>>

\* result = engine.transform(data, [ZoneType.CONTENT], uppercase_content) or
\* result = engine.transform(data)
CallTransform ==
    /\ Len(log) < MaxCalls
    /\ pc = "ready"
    /\ \E t \in {Transformer("upper", ""), NoTransformer} :
         \E r \in {transform(heap, data, ZoneTypes({"content"}), t)} :
            /\ heap' = r.h
            /\ result' = r.result
            /\ calls' = r.calls
            /\ transformer' = t
            /\ log' = Append(log, Entry("transform", heap, data, ZoneTypes({"content"}), t,
                                        ResultValue(r.h, r.result)))
    /\ zone_types' = ZoneTypes({"content"})
    /\ pc' = "returned"
    /\ UNCHANGED <<data, before, engine, registry>>

EngineNext == CallClassify \/ CallExtract \/ CallAnalyze \/ CallTransform

EngineSpec == EngineInit /\ [][EngineNext]_vars

(***************************************************************************)
(* Views of a recorded call.                                               *)
(***************************************************************************)
RECURSIVE NodesOf(_)
\* the nodes of a document given as a tree value: the maps reached through
\* top-level lists and `elements` lists, parents before children
NodesOf(tree) ==
    LET Each(items) ==
            LET F[i \in 0..Len(items)] ==
                    IF i = 0 THEN <<>> ELSE F[i - 1] \o NodesOf(items[i])
            IN  F[Len(items)]
    IN  IF tree.ty = "list" THEN Each(tree.vs)
        ELSE IF tree.ty = "dict"
        THEN <<tree>> \o (IF HasKey(tree, "elements") /\ Get(tree, "elements").ty = "list"
                          THEN Each(Get(tree, "elements").vs)
                          ELSE <<>>)
        ELSE <<>>

\* a string with at least one character that is not whitespace
HasText(v) ==
    /\ v.ty = "str"
    /\ \E i \in 1..Len(v.s) : CharAt(v.s, i) \notin Whitespace

\* the settings entries of the nodes of a document that hold text under a
\* key that passes the keyword test of extract_content
TextEntries(tree) ==
    LET nodes == NodesOf(tree)
        WithSettings == {n \in 1..Len(nodes) :
                            /\ HasKey(nodes[n], "settings")
                            /\ Get(nodes[n], "settings").ty = "dict"}
    IN  UNION {{<<n, k>> : k \in {j \in 1..Len(Get(nodes[n], "settings").ks) :
                                    /\ AnyIn(ExtractKeywords,
                                             Lower(Get(nodes[n], "settings").ks[j]))
                                    /\ HasText(Get(nodes[n], "settings").vs[j])}} :
               n \in WithSettings}

LogOf(op) == {i \in 1..Len(log) : log[i].op = op}

(***************************************************************************)
(* C15.  Every item extract_content returns has a value that is a string   *)
(* with at least one non-whitespace character; settings values that are    *)
(* non-strings, empty or blank produce no item; the widgets                *)
(* {settings:{title:'Welcome'}} and {settings:{title:''}} give exactly one *)
(* item.                                                                   *)
(***************************************************************************)
WelcomeAndBlank ==
    List(<<Widget(1, Dict(<<"title">>, <<Str("Welcome")>>)),
           Widget(2, Dict(<<"title">>, <<Str("")>>))>>)

C15_ItemsHoldText ==
    \A i \in LogOf("extract_content") :
        /\ \A j \in 1..Len(log[i].out) : HasText(log[i].out[j].value)
        /\ Len(log[i].out) = Cardinality(TextEntries(log[i].doc))
        /\ log[i].doc = WelcomeAndBlank => Len(log[i].out) = 1

\* the two widgets of the example were extracted: one item, 'Welcome'
C15_Witness ==
    \E i \in LogOf("extract_content") :
        /\ log[i].doc = WelcomeAndBlank
        /\ Len(log[i].out) = 1
        /\ log[i].out[1].value = Str("Welcome")

(***************************************************************************)
(* C16.  analyze reports total_zones equal to the number of zones of the   *)
(* document, each zone of each node counted exactly once whatever the      *)
(* nesting depth of the node, and total_elements equal to the number of    *)
(* nodes.                                                                  *)
(***************************************************************************)
C16_AnalyzeCounts ==
    \A i \in LogOf("analyze") :
      \A a \in {Alloc(<<>>, log[i].doc)} :
        /\ log[i].out.total_elements = Len(NodesOf(log[i].doc))
        /\ log[i].out.total_zones = Len(DocZones(a.h, a.v))

(***************************************************************************)
(* C17.  The engine is deterministic and stateless between invocations:    *)
(* on one instance the result of classify_zones, extract_content,          *)
(* transform or analyze depends only on the call's arguments; so           *)
(* classify_zones called twice on identical input, with any other engine   *)
(* calls in between, returns identical, identically ordered zone lists.    *)
(***************************************************************************)
\* what the call of a log entry returns on an engine just constructed
FreshOut(entry) ==
    LET a == Alloc(<<>>, entry.doc)
    IN  CASE entry.op = "classify_zones" -> ZonesValue(a.h, classify_zones(a.h, a.v, ""))
          [] entry.op = "extract_content" -> ItemsValue(a.h, extract_content(a.h, a.v))
          [] entry.op = "analyze" -> AnalysisValue(a.h, analyze(a.h, a.v))
          [] OTHER ->
               LET r == transform(a.h, a.v, entry.zone_types, entry.transformer)
               IN  ResultValue(r.h, r.result)

MaxOps == 3

\* key = f"{source_framework}:{target_framework}"
RegistryKey(source, target) == source \o ":" \o target

KeyIndex(entries, key) ==
    IF \E i \in 1..Len(entries) : entries[i].key = key
    THEN CHOOSE i \in 1..Len(entries) : entries[i].key = key
    ELSE 0

\* d[key] = info
Put(entries, info) ==
    IF KeyIndex(entries, info.key) # 0
    THEN [entries EXCEPT ![KeyIndex(entries, info.key)] = info]
    ELSE Append(entries, info)

\* __new__: the first construction also rebinds the class's dict to {}
Registry_new(c) ==
    IF ~c.instance THEN [instance |-> TRUE, entries |-> <<>>] ELSE c

\* TransformRegistry.register(name, source, target)(fn)
register(c, source, target, fn) ==
    [c EXCEPT !.entries =
        Put(@, [key |-> RegistryKey(source, target),
                source |-> source, target |-> target, fn |-> fn])]

\* TransformRegistry.get_transform(source, target); "None" for None
get_transform(c, source, target) ==
    IF KeyIndex(c.entries, RegistryKey(source, target)) = 0 THEN "None"
    ELSE c.entries[KeyIndex(c.entries, RegistryKey(source, target))].fn

\* TransformRegistry.get_supported_pairs()
get_supported_pairs(c) ==
    [i \in 1..Len(c.entries) |-> <<c.entries[i].source, c.entries[i].target>>]

\* TransformRegistry.clear() / ParserRegistry.clear()
clear(c) == [c EXCEPT !.entries = <<>>]

\* ParserRegistry.register(name, framework)(parser_cls)
register_parser(c, framework, parser_cls) ==
    [c EXCEPT !.entries =
        Put(@, [key |-> framework, source |-> framework, target |-> "", fn |-> parser_cls])]

\* ParserRegistry.get_parser(framework)
get_parser(c, framework) ==
    IF KeyIndex(c.entries, framework) = 0 THEN "None"
    ELSE c.entries[KeyIndex(c.entries, framework)].fn

\* the registries once the package is imported: the two built-in transforms
\* and the Elementor parser are registered through the decorators; no
\* registry object has been constructed
Imported ==
    [transforms |->
        register(register(NoRegistry.transforms,
                          "elementor", "bootstrap", "elementor_to_bootstrap"),
                 "bootstrap", "elementor", "bootstrap_to_elementor"),
     parsers |-> register_parser(NoRegistry.parsers, "elementor", "ElementorParser")]

\* framework names, pairs and functions the callers use
Names == {"elementor", "bootstrap", "a", "a:a"}
RegisterPairs == {<<"a", "a:a">>, <<"a:a", "a">>, <<"elementor", "bootstrap">>}
Functions == {"f", "g"}
ParserClasses == {"P", "Q"}

\* what the callers registered since the last clear(), by registry and by
\* (source, target): the latest function registered for the pair
Noted(reg, source, target, fn) ==
    [reg |-> reg, source |-> source, target |-> target, fn |-> fn]

NotedAtImport ==
    {Noted("transforms", "elementor", "bootstrap", "elementor_to_bootstrap"),
     Noted("transforms", "bootstrap", "elementor", "bootstrap_to_elementor"),
     Noted("parsers", "elementor", "", "ElementorParser")}

Note(noted, reg, source, target, fn) ==
    {r \in noted : ~(r.reg = reg /\ r.source = source /\ r.target = target)}
    \cup {Noted(reg, source, target, fn)}

LastOp(op, source, target, out) ==
    [op |-> op, source |-> source, target |-> target, out |-> out]

RegistryInit ==
    /\ heap = <<>>
    /\ data = Str("")
    /\ before = Str("")
    /\ zone_types = NoZoneTypes
    /\ transformer = NoTransformer
    /\ result = NoResult
    /\ calls = <<>>
    /\ pc = "imported"
    /\ engine = NewEngine
    /\ registry = Imported
    /\ log = [n |-> 0, last |-> LastOp("import", "", "", <<>>), noted |-> NotedAtImport]

RegistryFrame ==
    UNCHANGED <<heap, data, before, zone_types, transformer, result, calls, pc, engine>>

\* an operation that may change a registry
Changing(op, source, target, out, noted) ==
    /\ log.n < MaxOps
    /\ log' = [n |-> log.n + 1, last |-> LastOp(op, source, target, out), noted |-> noted]
    /\ RegistryFrame

\* the record after a lookup
Asked(op, source, target, out) == [log EXCEPT !.last = LastOp(op, source, target, out)]

NewTransformRegistry ==
    /\ registry' = [registry EXCEPT !.transforms = Registry_new(@)]
    /\ Changing("TransformRegistry", "", "", <<>>, log.noted)

Register ==
    \E p \in RegisterPairs, fn \in Functions :
        /\ registry' = [registry EXCEPT !.transforms = register(@, p[1], p[2], fn)]
        /\ Changing("register", p[1], p[2], fn, Note(log.noted, "transforms", p[1], p[2], fn))

ClearTransforms ==
    /\ registry' = [registry EXCEPT !.transforms = clear(@)]
    /\ Changing("clear", "", "", <<>>, {r \in log.noted : r.reg # "transforms"})

GetTransform ==
    \E source \in Names, target \in Names :
        /\ log' = Asked("get_transform", source, target,
                        get_transform(registry.transforms, source, target))
        /\ UNCHANGED registry
        /\ RegistryFrame

GetSupportedPairs ==
    /\ log' = Asked("get_supported_pairs", "", "", get_supported_pairs(registry.transforms))
    /\ UNCHANGED registry
    /\ RegistryFrame

NewParserRegistry ==
    /\ registry' = [registry EXCEPT !.parsers = Registry_new(@)]
    /\ Changing("ParserRegistry", "", "", <<>>, log.noted)

RegisterParser ==
    \E cls \in ParserClasses :
        /\ registry' = [registry EXCEPT !.parsers = register_parser(@, "elementor", cls)]
        /\ Changing("register_parser", "elementor", "", cls,
                    Note(log.noted, "parsers", "elementor", "", cls))

ClearParsers ==
    /\ registry' = [registry EXCEPT !.parsers = clear(@)]
    /\ Changing("clear_parsers", "", "", <<>>, {r \in log.noted : r.reg # "parsers"})

GetParser ==
    \E framework \in Names :
        /\ log' = Asked("get_parser", framework, "", get_parser(registry.parsers, framework))
        /\ UNCHANGED registry
        /\ RegistryFrame

RegistryNext ==
    \/ NewTransformRegistry
    \/ Register
    \/ ClearTransforms
    \/ GetTransform
    \/ GetSupportedPairs
    \/ NewParserRegistry
    \/ RegisterParser
    \/ ClearParsers
    \/ GetParser

RegistrySpec == RegistryInit /\ [][RegistryNext]_vars

(***************************************************************************)
(* C18.  The transform registry is write-once: after a (source, target)    *)
(* pair has been registered, no later registry operation other than        *)
(* clear() (a second register for the pair, constructing a                 *)
(* TransformRegistry) changes or removes the function get_transform        *)
(* returns for the pair; the same holds for ParserRegistry entries.        *)
(***************************************************************************)
WriteOnceStep ==
    /\ log'.last.op # "clear" =>
          \A source \in Names, target \in Names :
             get_transform(registry.transforms, source, target) # "None"
               => get_transform(registry'.transforms, source, target)
                    = get_transform(registry.transforms, source, target)
    /\ log'.last.op # "clear_parsers" =>
          \A framework \in Names :
             get_parser(registry.parsers, framework) # "None"
               => get_parser(registry'.parsers, framework)
                    = get_parser(registry.parsers, framework)

C18_WriteOnce == [][WriteOnceStep]_vars

(***************************************************************************)
(* C19.  get_transform(source, target) returns the function registered     *)
(* for exactly the pair (source, target), and None when no function was    *)
(* registered for that pair, for all framework name strings;               *)
(* get_supported_pairs lists exactly the registered pairs.  Stated for     *)
(* the time before any TransformRegistry object is constructed.            *)
(***************************************************************************)
NotedFor(source, target) ==
    {r \in log.noted : r.reg = "transforms" /\ r.source = source /\ r.target = target}

C19_ExactPair ==
    (pc = "imported" /\ ~registry.transforms.instance) =>
        /\ \A source \in Names, target \in Names :
              get_transform(registry.transforms, source, target)
                = (IF NotedFor(source, target) = {} THEN "None"
                   ELSE (CHOOSE r \in NotedFor(source, target) : TRUE).fn)
        /\ SeqToSet(get_supported_pairs(registry.transforms))
             = {<<r.source, r.target>> : r \in {x \in log.noted : x.reg = "transforms"}}

(***************************************************************************)
(* ElementorParser (src/src/translation_bridge/parsers/elementor.py):      *)
(* parse, ElementorElement.to_dict, ElementorDocument.to_dict, to_json.    *)
(*                                                                         *)
(* JSON data is a tree value; besides strings, lists and dicts it holds    *)
(* null and the booleans.  An ElementorElement is a record [id, el_type,   *)
(* widget_type, settings, elements, is_inner] whose elements field is a    *)
(* sequence of such records.  A JSON text is a sequence of tokens; the     *)
(* characters of a string literal are kept as the string itself.           *)
(***************************************************************************)
PyNone == [ty |-> "none", s |-> "", a |-> 0, ks |-> <<>>, vs |-> <<>>]
PyBool(b) == [ty |-> "bool", s |-> IF b THEN "True" ELSE "False", a |-> 0,
              ks |-> <<>>, vs |-> <<>>]

\* bool(v)
Truthy(v) ==
    CASE v.ty = "none" -> FALSE
      [] v.ty = "bool" -> v.s = "True"
      [] v.ty = "str" -> v.s # ""
      [] v.ty = "list" -> v.vs # <<>>
      [] OTHER -> v.ks # <<>>

\* d.get(key, default)
GetOr(d, key, default) == IF HasKey(d, key) THEN Get(d, key) ELSE default

RECURSIVE parse_element(_)
\* ElementorParser._parse_element(data)
parse_element(d) ==
    LET children == GetOr(d, "elements", List(<<>>))
    IN  [id |-> GetOr(d, "id", GetOr(d, "_id", Str(""))),
         el_type |-> GetOr(d, "elType", Str("widget")),
         widget_type |-> GetOr(d, "widgetType", PyNone),
         settings |-> GetOr(d, "settings", Dict(<<>>, <<>>)),
         elements |-> [i \in 1..Len(children.vs) |-> parse_element(children.vs[i])],
         is_inner |-> GetOr(d, "isInner", PyBool(FALSE))]

\* {k: v for k, v in data.items() if k not in [...]}
MetaOf(d) ==
    LET idx == SelectSeq([i \in 1..Len(d.ks) |-> i],
                         LAMBDA i : d.ks[i] \notin {"content", "elements", "version", "title"})
    IN  Dict([j \in 1..Len(idx) |-> d.ks[idx[j]]], [j \in 1..Len(idx) |-> d.vs[idx[j]]])

ElementorDocument(elements, version, title, meta) ==
    [raised |-> FALSE, elements |-> elements, version |-> version, title |-> title,
     meta |-> meta]

\* raise ValueError(f"Unexpected data type: ...")
ParseError ==
    [raised |-> TRUE, elements |-> <<>>, version |-> Str(""), title |-> Str(""),
     meta |-> Dict(<<>>, <<>>)]

ParseAll(items) == [i \in 1..Len(items) |-> parse_element(items[i])]

\* ElementorParser.parse(data)
parse(d) ==
    IF d.ty = "dict"
    THEN ElementorDocument(
             ParseAll(IF HasKey(d, "content") THEN Get(d, "content").vs
                      ELSE IF HasKey(d, "elements") THEN Get(d, "elements").vs
                      ELSE <<d>>),
             GetOr(d, "version", Str("")), GetOr(d, "title", Str("")), MetaOf(d))
    ELSE IF d.ty = "list"
    THEN ElementorDocument(ParseAll(d.vs), Str(""), Str(""), Dict(<<>>, <<>>))
    ELSE ParseError

RECURSIVE to_dict(_)
\* ElementorElement.to_dict()
to_dict(el) ==
    Dict(<<"id", "elType", "settings", "elements">>
            \o (IF Truthy(el.widget_type) THEN <<"widgetType">> ELSE <<>>)
            \o (IF Truthy(el.is_inner) THEN <<"isInner">> ELSE <<>>),
         <<el.id, el.el_type, el.settings,
           List([i \in 1..Len(el.elements) |-> to_dict(el.elements[i])])>>
            \o (IF Truthy(el.widget_type) THEN <<el.widget_type>> ELSE <<>>)
            \o (IF Truthy(el.is_inner) THEN <<el.is_inner>> ELSE <<>>))

\* ElementorDocument.to_dict()
document_to_dict(doc) ==
    Dict(<<"elements", "version", "title", "meta">>,
         <<List([i \in 1..Len(doc.elements) |-> to_dict(doc.elements[i])]),
           doc.version, doc.title, doc.meta>>)

\* json.dumps / json.loads on token sequences
Tok(kind, str) == [k |-> kind, s |-> str]

RECURSIVE json_dumps(_)
json_dumps(v) ==
    LET Joined(parts) ==
            LET F[i \in 0..Len(parts)] ==
                    IF i = 0 THEN <<>>
                    ELSE F[i - 1] \o (IF i > 1 THEN <<Tok(",", "")>> ELSE <<>>) \o parts[i]
            IN  F[Len(parts)]
    IN  CASE v.ty = "str" -> <<Tok("string", v.s)>>
          [] v.ty = "none" -> <<Tok("null", "")>>
          [] v.ty = "bool" -> <<Tok(IF v.s = "True" THEN "true" ELSE "false", "")>>
          [] v.ty = "list" ->
               <<Tok("[", "")>> \o Joined([i \in 1..Len(v.vs) |-> json_dumps(v.vs[i])])
                 \o <<Tok("]", "")>>
          [] OTHER ->
               <<Tok("{", "")>>
                 \o Joined([i \in 1..Len(v.ks) |->
                              <<Tok("string", v.ks[i]), Tok(":", "")>> \o json_dumps(v.vs[i])])
                 \o <<Tok("}", "")>>

RECURSIVE DecodeValue(_, _)
RECURSIVE DecodeItems(_, _, _)
RECURSIVE DecodeMembers(_, _, _, _)

\* the value that starts at token i: [v |-> the value, i |-> the index after it]
DecodeValue(toks, i) ==
    CASE toks[i].k = "string" -> [v |-> Str(toks[i].s), i |-> i + 1]
      [] toks[i].k = "null" -> [v |-> PyNone, i |-> i + 1]
      [] toks[i].k = "true" -> [v |-> PyBool(TRUE), i |-> i + 1]
      [] toks[i].k = "false" -> [v |-> PyBool(FALSE), i |-> i + 1]
      [] toks[i].k = "[" -> DecodeItems(toks, i + 1, <<>>)
      [] OTHER -> DecodeMembers(toks, i + 1, <<>>, <<>>)

DecodeItems(toks, i, acc) ==
    IF toks[i].k = "]" THEN [v |-> List(acc), i |-> i + 1]
    ELSE IF toks[i].k = "," THEN DecodeItems(toks, i + 1, acc)
    ELSE Then(DecodeValue(toks, i),
              LAMBDA r : DecodeItems(toks, r.i, Append(acc, r.v)))

DecodeMembers(toks, i, keys, vals) ==
    IF toks[i].k = "}" THEN [v |-> Dict(keys, vals), i |-> i + 1]
    ELSE IF toks[i].k = "," THEN DecodeMembers(toks, i + 1, keys, vals)
    ELSE Then(DecodeValue(toks, i + 2),
              LAMBDA r : DecodeMembers(toks, r.i, Append(keys, toks[i].s), Append(vals, r.v)))

json_loads(toks) == DecodeValue(toks, 1).v

\* ElementorParser.to_json(doc)
to_json(doc) == json_dumps(document_to_dict(doc))

(***************************************************************************)
(* The element trees handed to the parser, and the round trip              *)
(* parse -> to_json / to_dict -> parse of the serialized elements.         *)
(***************************************************************************)
\* a dict of the entries whose value is given; Absent marks a missing key
Absent == [ty |-> "absent", s |-> "", a |-> 0, ks |-> <<>>, vs |-> <<>>]

Present(keys, vals) ==
    LET idx == SelectSeq([i \in 1..Len(keys) |-> i], LAMBDA i : vals[i] # Absent)
    IN  Dict([j \in 1..Len(idx) |-> keys[idx[j]]], [j \in 1..Len(idx) |-> vals[idx[j]]])

ElementKeys == <<"id", "_id", "elType", "widgetType", "isInner", "settings", "elements">>

LeafElements ==
    {Present(ElementKeys, <<id, uid, elType, widgetType, isInner, settings, Absent>>) :
        id \in {Absent, Str("w1")},
        uid \in {Absent, Str("x")},
        elType \in {Absent, Str("widget")},
        widgetType \in {Absent, Str("heading"), Str(""), PyNone},
        isInner \in {Absent, PyBool(TRUE), PyBool(FALSE), PyNone},
        settings \in {Absent, Dict(<<"title">>, <<Str("A")>>)}}

Sections ==
    {Present(ElementKeys,
             <<Str("s1"), Absent, Str("section"), Absent, isInner, Absent, List(<<child>>)>>) :
        isInner \in {Absent, PyBool(TRUE)}, child \in LeafElements}

ParserInputs ==
    {List(<<el>>) : el \in LeafElements \cup Sections}
    \cup {Dict(<<"version", "content">>, <<Str("0.4"), List(<<el>>)>>) : el \in LeafElements}
    \cup {Dict(<<"title", "elements", "page">>, <<Str("Home"), List(<<el>>), Str("p")>>) :
             el \in LeafElements}
    \cup LeafElements
    \cup {Str("text")}

ParserInit ==
    /\ heap = <<>>
    /\ \E d \in ParserInputs : data = d /\ before = d
    /\ zone_types = NoZoneTypes
    /\ transformer = NoTransformer
    /\ result = NoResult
    /\ calls = <<>>
    /\ pc = "ready"
    /\ engine = NewEngine
    /\ registry = Imported
    /\ log = [doc1 |-> ParseError, form |-> "", text |-> <<>>, dict |-> PyNone,
              doc2 |-> ParseError]

ParserFrame ==
    UNCHANGED <<heap, data, before, zone_types, transformer, result, calls, engine, registry>>

\* doc1 = parser.parse(data)
Parse ==
    /\ pc = "ready"
    /\ \E doc \in {parse(data)} :
          /\ log' = [log EXCEPT !.doc1 = doc]
          /\ pc' = IF doc.raised THEN "raised" ELSE "parsed"
    /\ ParserFrame

\* json_str = parser.to_json(doc1)
ToJson ==
    /\ pc = "parsed"
    /\ log' = [log EXCEPT !.form = "json", !.text = to_json(log.doc1)]
    /\ pc' = "serialized"
    /\ ParserFrame

\* data2 = doc1.to_dict()
ToDict ==
    /\ pc = "parsed"
    /\ log' = [log EXCEPT !.form = "dict", !.dict = document_to_dict(log.doc1)]
    /\ pc' = "serialized"
    /\ ParserFrame

\* doc2 = parser.parse(json.loads(json_str)["elements"]) or
\* doc2 = parser.parse(data2["elements"])
Reparse ==
    /\ pc = "serialized"
    /\ \E data2 \in {IF log.form = "json" THEN json_loads(log.text) ELSE log.dict} :
          log' = [log EXCEPT !.doc2 = parse(Get(data2, "elements"))]
    /\ pc' = "reparsed"
    /\ ParserFrame

ParserNext == Parse \/ ToJson \/ ToDict \/ Reparse

ParserSpec == ParserInit /\ [][ParserNext]_vars

(***************************************************************************)
(* C20.  Parser round trip: for every element tree, parse, then            *)
(* to_dict / to_json, then parse of the serialized elements yields a       *)
(* document whose element tree equals that of the first parse: same ids,   *)
(* element types, widget types, settings, inner flags and children, in     *)
(* the same order.                                                         *)
(***************************************************************************)
C20_RoundTrip ==
    pc = "reparsed" => /\ ~log.doc2.raised
                       /\ log.doc2.elements = log.doc1.elements

(***************************************************************************)
(* The command line (src/src/translation_bridge/cli.py): cmd_transform on  *)
(* one file, _transform_site_directory on the JSON files of a directory,   *)
(* _transform_site_export on the pages of a site export.                   *)
(*                                                                         *)
(* A file is a record [exists, content, extracts, writable]: whether the   *)
(* path still exists when cmd_transform looks, what it holds ("ok": a      *)
(* document the registered converter accepts; "bad_json": no JSON;         *)
(* "bad_shape": JSON that parse rejects; "raises": a document on which the *)
(* registered converter raises), whether the fallback extract_content      *)
(* accepts the document, and whether the output file can be written.       *)
(***************************************************************************)
MaxFiles == 3

\* the framework names given on the command line
FrameworkNames == {"Elementor", "elementor", "bricks", "bootstrap", "divi"}

\* str.lower() on the framework names, evaluated once per name
LoweredNames == [name \in FrameworkNames |-> Lower(name)]

LowerName(name) == IF name \in FrameworkNames THEN LoweredNames[name] ELSE Lower(name)

\* get_parser_for_framework(framework)
get_parser_for_framework(framework) ==
    IF LowerName(framework) = "elementor" THEN "ElementorParser" ELSE "None"

\* cmd_transform(args): the return code
cmd_transform(reg, args) ==
    LET source == LowerName(args.source)
        target == LowerName(args.target)
        transform_fn == get_transform(reg.transforms, source, target)
    IN  IF ~args.file.exists THEN 1
        ELSE IF get_parser_for_framework(source) = "None" THEN 1
        ELSE IF args.file.content = "bad_json" THEN 1
        ELSE IF args.file.content = "bad_shape" THEN 1
        ELSE IF transform_fn # "None" /\ args.file.content = "raises" THEN 1
        ELSE IF transform_fn = "None" /\ ~args.file.extracts THEN 1
        ELSE IF ~args.dry_run /\ ~args.file.writable THEN 1
        ELSE 0

\* FileArgs for the file json_file
FileArgs(batch, json_file) ==
    [source |-> batch.source, target |-> batch.target, file |-> json_file,
     dry_run |-> batch.dry_run]

\* the loop body after cmd_transform returned result for file i, stopping
\* the batch at the first failure
AfterFileStop(progress, n, i, rc) ==
    IF rc = 0
    THEN [progress EXCEPT !.i = i + 1, !.attempted = Append(@, i),
                          !.success_count = @ + 1]
    ELSE [progress EXCEPT !.i = n + 1, !.attempted = Append(@, i),
                          !.error_count = @ + 1]

\* the loop body after cmd_transform returned result for file i of n
AfterFile(progress, n, i, rc) ==
    IF rc = 0
    THEN [progress EXCEPT !.i = i + 1, !.attempted = Append(@, i),
                          !.success_count = @ + 1]
    ELSE [progress EXCEPT !.i = i + 1, !.attempted = Append(@, i),
                          !.error_count = @ + 1]

\* return 0 if error_count == 0 else 1
ReturnCode(error_count) == IF error_count = 0 THEN 0 ELSE 1

\* the page loop body for page i: pages that are not published are skipped;
\* a conversion that returns a string is written and counted; one that
\* raises is counted as failed; one that returns no string is not counted
AfterPage(progress, page, i) ==
    IF page.status # "publish" THEN [progress EXCEPT !.i = i + 1]
    ELSE IF page.converts = "html"
    THEN [progress EXCEPT !.i = i + 1, !.attempted = Append(@, i), !.success_count = @ + 1]
    ELSE IF page.converts = "raises"
    THEN [progress EXCEPT !.i = i + 1, !.attempted = Append(@, i), !.error_count = @ + 1]
    ELSE [progress EXCEPT !.i = i + 1, !.attempted = Append(@, i)]

\* _transform_site_export up to the page loop: "pages" when the loop is
\* entered, else the code returned at once
BeforePages(reg, batch) ==
    IF batch.parse = "raises" THEN 1
    ELSE IF batch.dry_run THEN 0
    ELSE IF get_transform(reg.transforms, batch.source, batch.target) = "None" THEN 1
    ELSE IF batch.header = "raises" \/ batch.footer = "raises" THEN 1
    ELSE -1

FileKinds ==
    {[exists |-> e, content |-> c, extracts |-> x, writable |-> w] :
        e \in {TRUE}, c \in {"ok", "bad_json", "bad_shape", "raises"},
        x \in {TRUE}, w \in {TRUE}}
    \cup {[exists |-> FALSE, content |-> "ok", extracts |-> TRUE, writable |-> TRUE],
          [exists |-> TRUE, content |-> "ok", extracts |-> FALSE, writable |-> TRUE],
          [exists |-> TRUE, content |-> "ok", extracts |-> TRUE, writable |-> FALSE]}

PageKinds ==
    {[status |-> st, converts |-> c] :
        st \in {"publish", "draft"}, c \in {"html", "raises", "nonstr"}}

SeqsUpTo(S, n) == UNION {[1..k -> S] : k \in 0..n}

DirectoryBatches ==
    {[mode |-> "directory", source |-> src, target |-> tgt, dry_run |-> dry,
      files |-> fs, pages |-> <<>>, parse |-> "ok", header |-> "none", footer |-> "none"] :
        src \in {"Elementor", "bricks"}, tgt \in {"bootstrap", "divi"},
        dry \in BOOLEAN, fs \in SeqsUpTo(FileKinds, MaxFiles)}

ExportBatches ==
    {[mode |-> "export", source |-> "elementor", target |-> tgt, dry_run |-> dry,
      files |-> <<>>, pages |-> ps, parse |-> prs, header |-> hd, footer |-> "none"] :
        tgt \in {"bootstrap", "divi"}, dry \in BOOLEAN, ps \in SeqsUpTo(PageKinds, MaxFiles),
        prs \in {"ok", "raises"}, hd \in {"none", "ok", "raises"}}
    \cup {[mode |-> "export", source |-> "elementor", target |-> "bootstrap", dry_run |-> FALSE,
           files |-> <<>>, pages |-> <<>>, parse |-> "ok", header |-> hd, footer |-> "raises"] :
             hd \in {"none", "ok"}}

NoProgress == [i |-> 1, attempted |-> <<>>, success_count |-> 0, error_count |-> 0, rc |-> -1]

BatchInit ==
    /\ heap = <<>>
    /\ \E b \in DirectoryBatches \cup ExportBatches : data = b /\ before = b
    /\ zone_types = NoZoneTypes
    /\ transformer = NoTransformer
    /\ result = NoResult
    /\ calls = <<>>
    /\ pc = "start"
    /\ engine = NewEngine
    /\ registry = Imported
    /\ log = NoProgress

BatchFrame ==
    UNCHANGED <<heap, data, before, zone_types, transformer, result, calls, engine, registry>>

\* _transform_site_directory: no JSON file found, return 0
DirectoryEmpty ==
    /\ pc = "start" /\ data.mode = "directory" /\ data.files = <<>>
    /\ log' = [log EXCEPT !.rc = 0]
    /\ pc' = "done"
    /\ BatchFrame

\* _transform_site_directory: one turn of `for json_file in json_files`
DirectoryFile ==
    /\ pc \in {"start", "files"} /\ data.mode = "directory"
    /\ log.i <= Len(data.files)
    /\ log' = AfterFile(log, Len(data.files), log.i,
                        cmd_transform(registry, FileArgs(data, data.files[log.i])))
    /\ pc' = "files"
    /\ BatchFrame

\* _transform_site_directory: the loop is over, return
DirectoryReturn ==
    /\ pc = "files" /\ data.mode = "directory"
    /\ log.i > Len(data.files)
    /\ log' = [log EXCEPT !.rc = ReturnCode(log.error_count)]
    /\ pc' = "done"
    /\ BatchFrame

\* _transform_site_export: parse, analyze, styles, converter, header and
\* footer; returns at once or enters the page loop
ExportStart ==
    /\ pc = "start" /\ data.mode = "export"
    /\ \E rc \in {BeforePages(registry, data)} :
          /\ log' = [log EXCEPT !.rc = rc]
          /\ pc' = IF rc = -1 THEN "pages" ELSE "done"
    /\ BatchFrame

\* _transform_site_export: one turn of `for page in site.pages`
ExportPage ==
    /\ pc = "pages" /\ log.i <= Len(data.pages)
    /\ log' = AfterPage(log, data.pages[log.i], log.i)
    /\ pc' = "pages"
    /\ BatchFrame

\* _transform_site_export: the loop is over, return
ExportReturn ==
    /\ pc = "pages" /\ log.i > Len(data.pages)
    /\ log' = [log EXCEPT !.rc = ReturnCode(log.error_count)]
    /\ pc' = "done"
    /\ BatchFrame

BatchNext ==
    \/ DirectoryEmpty
    \/ DirectoryFile
    \/ DirectoryReturn
    \/ ExportStart
    \/ ExportPage
    \/ ExportReturn

BatchSpec == BatchInit /\ [][BatchNext]_vars

\* the files of the batch on which cmd_transform fails
FailingFiles ==
    {j \in 1..Len(data.files) : cmd_transform(registry, FileArgs(data, data.files[j])) # 0}

Published == {j \in 1..Len(data.pages) : data.pages[j].status = "publish"}

CallCount(zone) ==
    Cardinality({k \in 1..Len(calls) :
                   calls[k] = [zone_type |-> zone.zone_type, path |-> zone.path]})

C22_OncePerZone ==
    (Returned /\ WithTransformer) =>
       \A zones \in {DocZones(Start.h, Start.v)} :
          /\ \A i \in 1..Len(zones) :
                ZoneMatches(zone_types, zones[i]) => CallCount(zones[i]) = 1
          /\ Len(result.errors)
                <= Cardinality({i \in 1..Len(zones) : ZoneMatches(zone_types, zones[i])})
          /\ Len(result.zones_modified)
                <= Cardinality({i \in 1..Len(zones) : ZoneMatches(zone_types, zones[i])})

(***************************************************************************)
(* transform on documents whose settings map holds a settings map of its   *)
(* own: classify_zones follows `settings` of every map it classifies, so   *)
(* such a map has zones under a path ending in ".settings.settings".       *)
(***************************************************************************)
InnerSettings == Dict(<<"title">>, <<Str("b")>>)

NestedSettings ==
    {Dict(<<"color", "settings">>, <<Str("x"), InnerSettings>>),
     Dict(<<"title", "settings">>, <<Str("a"), InnerSettings>>),
     Dict(<<"settings">>, <<Dict(<<"caption", "settings">>, <<Str("c"), InnerSettings>>)>>)}

NestedDocs ==
    {Widget(1, ns) : ns \in NestedSettings}
    \cup {List(<<Widget(1, ns)>>) : ns \in NestedSettings}
    \cup {Container(1, EmptySettings, <<Widget(1, ns)>>) : ns \in NestedSettings}

WriteInit ==
    /\ Idle
    /\ \E doc \in NestedDocs :
          /\ heap = Alloc(<<>>, doc).h
          /\ data = Alloc(<<>>, doc).v
          /\ before = doc
    /\ zone_types = NoZoneTypes
    /\ transformer = NoTransformer
    /\ result = NoResult
    /\ calls = <<>>
    /\ pc = "ready"

WriteSpec == WriteInit /\ [][Next]_vars

(***************************************************************************)
(* C23.  Write-back completeness: whenever the transformer returns, for a  *)
(* matching zone at path P, data that differs from the original, the       *)
(* result tree holds the returned value for every returned key that exists *)
(* in the map at P; zones of a settings map nested in a settings map       *)
(* included.  Stated for the transformer that upper-cases every string.    *)
(***************************************************************************)
\* the zones of the input whose returned data differs from the original
ChangedZones(zones, zts, t) ==
    {i \in 1..Len(zones) :
        /\ ZoneMatches(zts, zones[i])
        /\ ~Raises(t, zones[i])
        /\ ~PyEq(DerefData(Start.h, CallTransformer(t, zones[i], Start.h).data),
                 DerefData(Start.h, zones[i].data))}

C23_WriteBackComplete ==
    (Returned /\ transformer = Transformer("upper", "")) =>
       \A zones \in {DocZones(Start.h, Start.v)} :
          \A i \in ChangedZones(zones, zone_types, transformer) :
             \A returned \in {CallTransformer(transformer, zones[i], Start.h).data} :
                \A m \in MapView(heap, result.data) :
                   m.path = zones[i].path =>
                      \A k \in 1..Len(returned.ks) :
                         HasKey(m, returned.ks[k]) =>
                            Get(m, returned.ks[k]) = Shallow(returned.vs[k])

(***************************************************************************)
(* C24.  Write-back is confined to the zone's own keys: a key of the       *)
(* returned data that is not one of the zone's original_keys is ignored,   *)
(* and never overwrites a value that belongs to another zone of the node.  *)
(* Stated for the transformer that returns, besides the zone's keys, a key *)
(* "id", applied to Content zones: the Structural zones, which hold every  *)
(* "id" of the document, are the same in the result as in the input.       *)
(***************************************************************************)
StructuralZones(h, d) ==
    LET zones == DocZones(h, d)
    IN  {[path |-> zones[i].path, ks |-> zones[i].original_keys,
          vs |-> ShallowSeq(zones[i].data.vs)] :
         i \in {j \in 1..Len(zones) : zones[j].zone_type = "structural"}}

C24_OwnKeysOnly ==
    (Returned /\ transformer = Transformer("extra", "")
              /\ zone_types = ZoneTypes({"content"})) =>
       StructuralZones(heap, result.data) = StructuralZones(Start.h, Start.v)

(***************************************************************************)
(* C25.  zones_modified lists a zone's path only if the result tree        *)
(* differs from the input tree in that zone: for every path in             *)
(* zones_modified some zone at that path has other keys or values in the   *)
(* result than in the input.                                               *)
(***************************************************************************)
ZoneViews(h, d) ==
    LET zones == DocZones(h, d)
    IN  {[zone_type |-> zones[i].zone_type, path |-> zones[i].path,
          ks |-> zones[i].original_keys, vs |-> ShallowSeq(zones[i].data.vs)] :
         i \in 1..Len(zones)}

C25_ModifiedMeansChanged ==
    (Returned /\ WithTransformer) =>
       \A before_zones \in {ZoneViews(Start.h, Start.v)} :
          \A after_zones \in {ZoneViews(heap, result.data)} :
             \A k \in 1..Len(result.zones_modified) :
                {z \in before_zones : z.path = result.zones_modified[k]}
                   # {z \in after_zones : z.path = result.zones_modified[k]}

(***************************************************************************)
(* C26.  In the list classify_zones returns for a node, the zones of one   *)
(* map appear in the order Structural, Content, Styling, Behavioral, Meta, *)
(* and all of the node's own zones, those of its settings map included,    *)
(* appear before any zone of any child in `elements`.                      *)
(***************************************************************************)
Rank(zt) == CHOOSE r \in 1..Len(ZoneType) : ZoneType[r] = zt

StartsWith(prefix, str) ==
    Len(prefix) <= Len(str) /\ SubSeq(str, 1, Len(prefix)) = prefix

EndsWith(suffix, str) ==
    Len(suffix) <= Len(str) /\ SubSeq(str, Len(str) - Len(suffix) + 1, Len(str)) = suffix

\* the path of the node whose own map or whose settings map has path p
NodePath(p) ==
    IF p = "root" \/ p = "settings" THEN ""
    ELSE IF EndsWith(".settings", p) THEN SubSeq(p, 1, Len(p) - Len(".settings"))
    ELSE p

\* whether path q lies in a child of the node whose own map or settings
\* map has path p
Below(p, q) ==
    StartsWith(IF NodePath(p) = "" THEN "elements[" ELSE NodePath(p) \o ".elements[", q)

C26_ZoneOrder ==
    \A i \in LogOf("classify_zones") :
       \A a, b \in 1..Len(log[i].out) :
          /\ (/\ log[i].out[a].path = log[i].out[b].path
              /\ Rank(log[i].out[a].zone_type) < Rank(log[i].out[b].zone_type)) => a < b
          /\ Below(log[i].out[a].path, log[i].out[b].path) => a < b

(***************************************************************************)
(* extract_content and classify_zones on one document: a widget whose      *)
(* settings hold one or two keys, with or without the content keywords,    *)
(* on its own, in a top-level list, or below one or two sections.          *)
(***************************************************************************)
ExtractKeyPool == {"title", "caption", "label", "Heading", "editor_text", "custom"}

ExtractValues == {Str("Hi"), Str(" ")}

ExtractSettings ==
    {Dict(<<k>>, <<v>>) : k \in ExtractKeyPool, v \in ExtractValues}
    \cup {Dict(ks, <<v1, v2>>) :
             ks \in {q \in ExtractKeyPool \X ExtractKeyPool : q[1] # q[2]},
             v1 \in ExtractValues, v2 \in ExtractValues}

ExtractDocs ==
    {Widget(1, st) : st \in ExtractSettings}
    \cup {List(<<Widget(1, st), Widget(2, PlainSettings)>>) : st \in ExtractSettings}
    \cup {Container(1, TitledSettings, <<Widget(1, st), Widget(2, PlainSettings)>>) :
             st \in ExtractSettings}
    \cup {Container(2, TitledSettings,
                    <<Container(1, EmptySettings, <<Widget(1, st)>>),
                      Widget(2, PlainSettings)>>) : st \in ExtractSettings}

ExtractInit ==
    /\ Idle
    /\ \E doc \in ExtractDocs :
          /\ heap = Alloc(<<>>, doc).h
          /\ data = Alloc(<<>>, doc).v
          /\ before = doc
    /\ zone_types = NoZoneTypes
    /\ transformer = NoTransformer
    /\ result = NoResult
    /\ calls = <<[items |-> <<>>, zones |-> <<>>]>>
    /\ pc = "ready"

\* items = engine.extract_content(data)
ExtractContent ==
    /\ pc \in {"ready", "classified"}
    /\ calls' = <<[calls[1] EXCEPT !.items = ItemsValue(heap, extract_content(heap, data))]>>
    /\ pc' = IF pc = "ready" THEN "extracted" ELSE "both"
    /\ UNCHANGED <<heap, data, before, zone_types, transformer, result>>
    /\ UNCHANGED others

\* the zones of the document: engine.classify_zones(data), or
\* engine.classify_zones(item, f"[{i}]") for the items of a top-level list
ClassifyDocument ==
    /\ pc \in {"ready", "extracted"}
    /\ calls' = <<[calls[1] EXCEPT !.zones = ZonesValue(heap, DocZones(heap, data))]>>
    /\ pc' = IF pc = "ready" THEN "classified" ELSE "both"
    /\ UNCHANGED <<heap, data, before, zone_types, transformer, result>>
    /\ UNCHANGED others

ExtractNext == ExtractContent \/ ClassifyDocument

ExtractSpec == ExtractInit /\ [][ExtractNext]_vars

RECURSIVE PreOrder(_, _)
\* the nodes of a tree with their paths, every node before its children and
\* the children in list order
PreOrder(tree, path) ==
    LET Each(items, Seg(_)) ==
            LET F[i \in 0..Len(items)] ==
                    IF i = 0 THEN <<>> ELSE F[i - 1] \o PreOrder(items[i], Seg(i - 1))
            IN  F[Len(items)]
    IN  IF tree.ty = "dict"
        THEN <<[path |-> path, node |-> tree]>>
             \o (IF HasKey(tree, "elements") /\ Get(tree, "elements").ty = "list"
                 THEN Each(Get(tree, "elements").vs, LAMBDA i : ChildPath(path, i))
                 ELSE <<>>)
        ELSE IF tree.ty = "list"
        THEN Each(tree.vs, LAMBDA i : ListItemPath(path, i))
        ELSE <<>>

\* the settings map of a node, an empty map if it has none
SettingsOf(node) ==
    IF HasKey(node, "settings") /\ Get(node, "settings").ty = "dict"
    THEN Get(node, "settings")
    ELSE Dict(<<>>, <<>>)

(***************************************************************************)
(* C27.  extract_content and classify_zones use the same content-keyword   *)
(* test: for every node and every settings key holding a non-blank string, *)
(* extract_content emits an item for the key if and only if the key is in  *)
(* the Content zone of that settings map.                                  *)
(***************************************************************************)
C27_SameKeywordTest ==
    pc = "both" =>
       \A nodes \in {PreOrder(before, "")} :
          \A n \in 1..Len(nodes) :
             \A j \in 1..Len(SettingsOf(nodes[n].node).ks) :
                NonBlankString(SettingsOf(nodes[n].node).vs[j]) =>
                   ((\E i \in 1..Len(calls[1].items) :
                        /\ calls[1].items[i].key = SettingsOf(nodes[n].node).ks[j]
                        /\ calls[1].items[i].path
                              = ItemFieldPath(nodes[n].path, SettingsOf(nodes[n].node).ks[j]))
                    <=>
                    (\E z \in 1..Len(calls[1].zones) :
                        /\ calls[1].zones[z].zone_type = "content"
                        /\ calls[1].zones[z].path = SettingsPath(nodes[n].path)
                        /\ SettingsOf(nodes[n].node).ks[j]
                              \in SeqToSet(calls[1].zones[z].original_keys)))

(***************************************************************************)
(* C28.  extract_content returns items in depth-first pre-order: all items *)
(* of a node precede the items of its children, children are visited in    *)
(* list order, the items of one node follow the insertion order of its     *)
(* settings, and each item's path is the node's path, '.settings.' and the *)
(* key, child nodes being addressed by an 'elements[i]' segment.           *)
(***************************************************************************)
\* the settings keys of a node for which an item is emitted, in insertion
\* order, as <<path, key>>
ItemsOfNode(entry) ==
    LET st == SettingsOf(entry.node)
        idx == SelectSeq([j \in 1..Len(st.ks) |-> j],
                         LAMBDA j : IsExtractKey(st.ks[j]) /\ NonBlankString(st.vs[j]))
    IN  [j \in 1..Len(idx) |-> <<ItemFieldPath(entry.path, st.ks[idx[j]]), st.ks[idx[j]]>>]

ItemsInPreOrder(tree) ==
    LET nodes == PreOrder(tree, "")
        F[n \in 0..Len(nodes)] == IF n = 0 THEN <<>> ELSE F[n - 1] \o ItemsOfNode(nodes[n])
    IN  F[Len(nodes)]

C28_PreOrder ==
    pc \in {"extracted", "both"} =>
       [i \in 1..Len(calls[1].items) |-> <<calls[1].items[i].path, calls[1].items[i].key>>]
          = ItemsInPreOrder(before)

\* a section whose own title, whose first child's subtree and whose second
\* child each gave an item, in that order
C28_Witness ==
    /\ pc = "extracted"
    /\ Len(calls[1].items) >= 4
    /\ calls[1].items[1].path = "settings.title"
    /\ StartsWith("elements[0].elements[0].settings.", calls[1].items[2].path)
    /\ StartsWith("elements[0].elements[0].settings.", calls[1].items[3].path)
    /\ calls[1].items[4].path = "elements[1].settings.title"

(***************************************************************************)
(* ElementorParser.extract_content                                         *)
(* (src/src/translation_bridge/parsers/elementor.py)                       *)
(***************************************************************************)
\* WIDGET_TYPES: <<widget type, content_key ("" for None), type>>
WIDGET_TYPES ==
    {<<"heading", "title", "text">>, <<"text-editor", "editor", "html">>,
     <<"image", "image", "media">>, <<"video", "video", "media">>,
     <<"button", "text", "text">>, <<"icon", "icon", "icon">>,
     <<"icon-box", "title_text", "text">>, <<"image-box", "title_text", "text">>,
     <<"counter", "title", "text">>, <<"progress", "title", "text">>,
     <<"testimonial", "testimonial_content", "html">>, <<"tabs", "tabs", "repeater">>,
     <<"accordion", "tabs", "repeater">>, <<"toggle", "tabs", "repeater">>,
     <<"social-icons", "social_icon_list", "repeater">>,
     <<"alert", "alert_description", "html">>, <<"html", "html", "html">>,
     <<"shortcode", "shortcode", "text">>, <<"divider", "", "structural">>,
     <<"spacer", "", "structural">>, <<"google_maps", "address", "text">>,
     <<"form", "form_fields", "repeater">>, <<"nav-menu", "menu", "select">>,
     <<"sidebar", "sidebar", "select">>}

\* self.WIDGET_TYPES.get(element.widget_type or "", {}), with
\* .get("content_key") and .get("type", "text")
WidgetInfo(widget_type) ==
    IF Truthy(widget_type) /\ \E w \in WIDGET_TYPES : w[1] = widget_type.s
    THEN [content_key |-> (CHOOSE w \in WIDGET_TYPES : w[1] = widget_type.s)[2],
          type |-> (CHOOSE w \in WIDGET_TYPES : w[1] = widget_type.s)[3]]
    ELSE [content_key |-> "", type |-> "text"]

\* the keys of the `for key in [...]` loop
CommonContentKeys == <<"title", "description", "text", "content", "editor", "heading">>

ContentItem(path, key, value, widget_type, content_type) ==
    [path |-> path \o ".settings." \o key, key |-> key, value |-> value,
     widget_type |-> widget_type, content_type |-> content_type]

\* the item found through the widget type's content_key
ContentKeyItem(el, path) ==
    LET info == WidgetInfo(el.widget_type)
    IN  IF /\ info.content_key # ""
           /\ HasKey(el.settings, info.content_key)
           /\ Truthy(Get(el.settings, info.content_key))
        THEN <<ContentItem(path, info.content_key, Get(el.settings, info.content_key),
                           el.widget_type, info.type)>>
        ELSE <<>>

\* the items found through the common content keys
CommonKeyItems(el, path) ==
    LET idx == SelectSeq([i \in 1..Len(CommonContentKeys) |-> i],
                         LAMBDA i :
                            /\ HasKey(el.settings, CommonContentKeys[i])
                            /\ CommonContentKeys[i] # WidgetInfo(el.widget_type).content_key
                            /\ NonBlankString(Get(el.settings, CommonContentKeys[i])))
    IN  [j \in 1..Len(idx) |->
            ContentItem(path, CommonContentKeys[idx[j]],
                        Get(el.settings, CommonContentKeys[idx[j]]), el.widget_type, "text")]

RECURSIVE extract_from_element(_, _)
extract_from_element(el, path) ==
    LET Children ==
            LET F[i \in 0..Len(el.elements)] ==
                    IF i = 0 THEN <<>>
                    ELSE F[i - 1] \o extract_from_element(el.elements[i],
                                                          ChildPath(path, i - 1))
            IN  F[Len(el.elements)]
    IN  ContentKeyItem(el, path) \o CommonKeyItems(el, path) \o Children

\* ElementorParser.extract_content(doc)
parser_extract_content(doc) ==
    LET F[i \in 0..Len(doc.elements)] ==
            IF i = 0 THEN <<>>
            ELSE F[i - 1] \o extract_from_element(doc.elements[i], ChildPath("", i - 1))
    IN  F[Len(doc.elements)]

\* widgets of several types whose settings hold text, blank text, an empty
\* string or a media dict under the content keys
ContentWidgetTypes ==
    {Absent, Str("heading"), Str("text-editor"), Str("image"), Str("button"),
     Str("divider"), Str("my-widget")}

ContentValues == {Str("Hi"), Str(" "), Str(""), Dict(<<"url">>, <<Str("u")>>)}

ContentSettings ==
    {Present(<<"title", "image", "description">>, <<t, i, d>>) :
        t \in {Absent} \cup ContentValues,
        i \in {Absent, Dict(<<"url">>, <<Str("u")>>)},
        d \in {Absent, Str("Hi"), Str(" ")}}

ContentInputs ==
    {List(<<Present(ElementKeys,
                    <<Str("w1"), Absent, Str("widget"), wt, Absent, st, Absent>>)>>) :
        wt \in ContentWidgetTypes, st \in ContentSettings}
    \cup {List(<<Present(ElementKeys,
                  <<Str("s1"), Absent, Str("section"), Absent, Absent, Absent,
                    List(<<Present(ElementKeys,
                             <<Str("w1"), Absent, Str("widget"), Str("heading"),
                               Absent, st, Absent>>)>>)>>)>>) :
             st \in ContentSettings}

ContentInit ==
    /\ heap = <<>>
    /\ \E d \in ContentInputs : data = d /\ before = d
    /\ zone_types = NoZoneTypes
    /\ transformer = NoTransformer
    /\ result = NoResult
    /\ calls = <<>>
    /\ pc = "ready"
    /\ engine = NewEngine
    /\ registry = Imported
    /\ log = [doc1 |-> ParseError, form |-> "", text |-> <<>>, dict |-> PyNone,
              doc2 |-> ParseError]

\* content = parser.extract_content(doc1)
ParserExtract ==
    /\ pc = "parsed"
    /\ calls' = parser_extract_content(log.doc1)
    /\ pc' = "extracted"
    /\ UNCHANGED <<heap, data, before, zone_types, transformer, result, engine, registry, log>>

ContentNext == Parse \/ ParserExtract

ContentSpec == ContentInit /\ [][ContentNext]_vars

(***************************************************************************)
(* C29.  Every content item ElementorParser.extract_content returns,       *)
(* whether found through the widget type's content_key or through the      *)
(* common content keys, has a value that is a non-empty, non-whitespace    *)
(* string.                                                                 *)
(***************************************************************************)
C29_ParserItemsHoldText ==
    pc = "extracted" => \A i \in 1..Len(calls) : HasText(calls[i].value)

(***************************************************************************)
(* ElementorSiteParser.parse_zip and cleanup                               *)
(* (src/src/translation_bridge/parsers/elementor_site.py).                 *)
(*                                                                         *)
(* The temporary directories are numbered in the order tempfile.mkdtemp    *)
(* creates them; dirs[i] tells whether directory i exists.  The parser     *)
(* holds in _temp_dir the number of one directory, 0 for None.             *)
(***************************************************************************)
MaxSiteCalls == 4

\* ElementorSiteParser(): self._temp_dir = None
NewSiteParser == [_temp_dir |-> 0]

\* parse_zip(zip_path) on a zip that is "missing", "not_zip" (both raise
\* before a directory is made), "corrupt" (extractall raises) or "ok":
\* [parser, dirs, raised]
parse_zip(parser, dirs, zip) ==
    IF zip \in {"missing", "not_zip"}
    THEN [parser |-> parser, dirs |-> dirs, raised |-> TRUE]
    ELSE [parser |-> [parser EXCEPT !._temp_dir = Len(dirs) + 1],
          dirs |-> Append(dirs, TRUE),
          raised |-> zip = "corrupt"]

\* cleanup(): [parser, dirs]
site_cleanup(parser, dirs) ==
    IF parser._temp_dir # 0 /\ dirs[parser._temp_dir]
    THEN [parser |-> [parser EXCEPT !._temp_dir = 0],
          dirs |-> [dirs EXCEPT ![parser._temp_dir] = FALSE]]
    ELSE [parser |-> parser, dirs |-> dirs]

SiteInit ==
    /\ heap = <<>>
    /\ data = NewSiteParser
    /\ before = NewSiteParser
    /\ zone_types = NoZoneTypes
    /\ transformer = NoTransformer
    /\ result = NoResult
    /\ calls = <<>>
    /\ pc = "site"
    /\ engine = NewEngine
    /\ registry = Imported
    /\ log = <<>>

SiteFrame == UNCHANGED <<before, zone_types, transformer, result, calls, pc, engine, registry>>

\* site = site_parser.parse_zip(zip_path), which may raise
ParseZip ==
    /\ Len(log) < MaxSiteCalls
    /\ \E zip \in {"ok", "missing", "not_zip", "corrupt"} :
          \E r \in {parse_zip(data, heap, zip)} :
             /\ data' = r.parser
             /\ heap' = r.dirs
             /\ log' = Append(log, [op |-> "parse_zip", zip |-> zip, raised |-> r.raised])
    /\ SiteFrame

\* site_parser.cleanup()
Cleanup ==
    /\ Len(log) < MaxSiteCalls
    /\ \E r \in {site_cleanup(data, heap)} :
          /\ data' = r.parser
          /\ heap' = r.dirs
    /\ log' = Append(log, [op |-> "cleanup", zip |-> "", raised |-> FALSE])
    /\ SiteFrame

SiteNext == ParseZip \/ Cleanup

SiteSpec == SiteInit /\ [][SiteNext]_vars

(***************************************************************************)
(* C30.  After cleanup() returns, no temporary directory created by any    *)
(* earlier parse_zip call on that parser still exists, for any sequence of *)
(* parse_zip calls: several parse_zip calls before one cleanup, and a      *)
(* parse_zip that raised during extraction, included.                      *)
(***************************************************************************)
C30_CleanupRemovesAll ==
    (log # <<>> /\ log[Len(log)].op = "cleanup") => \A i \in 1..Len(heap) : ~heap[i]

====
